---- MODULE Spec2Model ----
(***************************************************************************)
(* Model of the repository metadata fetcher of oscargabriel-dev:           *)
(* getRepoStars and getRepoLastCommitDate (src/app/pages/projects/         *)
(* functions.ts), a read-through cache in front of the GitHub REST API.    *)
(*                                                                         *)
(* JavaScript values are tagged records, strings are sequences of          *)
(* one-character strings, so that String(), Number.parseInt(), template    *)
(* strings and truthiness are computed the way the code computes them.     *)
(* Every await of the code is one atomic step of an invocation; several    *)
(* invocations interleave at their awaits.                                 *)
(***************************************************************************)
EXTENDS Integers, Sequences, FiniteSets, TLC

\* Number of invocations racing on one cache key in SpecRace.
MaxRacers == 2

\* expirationTtl passed to REPO_CACHE.put
ExpirationTtl == 300

\* expirationTtl passed to STARS_CACHE.put by the earlier variants
ExpirationTtlStarsCache == 3600

-----------------------------------------------------------------------------
(* JavaScript values *)

Null == [t |-> "null"]
Undefined == [t |-> "undefined"]
NaN == [t |-> "nan"]
\* a finite number whole + tenths/10 (tenths = 0: an integer)
Num(w, f) == [t |-> "num", whole |-> w, tenths |-> f]
Str(s) == [t |-> "str", s |-> s]
\* a value thrown by an operation instead of a result
Thrown == [t |-> "throw"]

Bool(b) == [t |-> "bool", b |-> b]

\* ToBoolean: null, undefined, NaN, 0, "" and false are falsy
Truthy(v) ==
  CASE v.t = "str" -> Len(v.s) > 0
    [] v.t = "num" -> ~(v.whole = 0 /\ v.tenths = 0)
    [] v.t \in {"obj", "arr"} -> TRUE
    [] v.t = "bool" -> v.b
    [] OTHER -> FALSE

Digits == <<"0", "1", "2", "3", "4", "5", "6", "7", "8", "9">>
IsDigit(c) == \E i \in 1..10 : Digits[i] = c
DigitVal(c) == (CHOOSE i \in 1..10 : Digits[i] = c) - 1
IsSpace(c) == c = " "

RECURSIVE DecimalOf(_)
\* the decimal digits of a natural number
DecimalOf(n) ==
  IF n < 10 THEN <<Digits[n + 1]>>
  ELSE DecimalOf(n \div 10) \o <<Digits[(n % 10) + 1]>>

\* String(v) for the numbers of the model
NumberToString(v) ==
  LET int == IF v.whole < 0 THEN <<"-">> \o DecimalOf(-v.whole)
             ELSE DecimalOf(v.whole)
  IN IF v.tenths = 0 THEN int ELSE int \o <<".">> \o <<Digits[v.tenths + 1]>>

RECURSIVE SkipSpace(_)
SkipSpace(s) ==
  IF Len(s) > 0 /\ IsSpace(Head(s)) THEN SkipSpace(Tail(s)) ELSE s

RECURSIVE DigitPrefix(_)
\* the longest prefix of s made of decimal digits
DigitPrefix(s) ==
  IF Len(s) > 0 /\ IsDigit(Head(s)) THEN <<Head(s)>> \o DigitPrefix(Tail(s))
  ELSE <<>>

RECURSIVE DigitsValue(_, _)
DigitsValue(s, acc) ==
  IF Len(s) = 0 THEN acc ELSE DigitsValue(Tail(s), acc * 10 + DigitVal(Head(s)))

\* Number.parseInt(s, 10): leading white space, an optional sign, then the
\* longest run of digits; NaN when that run is empty
ParseInt(s) ==
  LET t == SkipSpace(s)
      neg == Len(t) > 0 /\ Head(t) = "-"
      u == IF Len(t) > 0 /\ Head(t) \in {"-", "+"} THEN Tail(t) ELSE t
      d == DigitPrefix(u)
  IN IF Len(d) = 0 THEN NaN
     ELSE Num(IF neg THEN -DigitsValue(d, 0) ELSE DigitsValue(d, 0), 0)

\* Number.isFinite
IsFinite(v) == v.t = "num"


\* typeof v === "number"
TypeofNumber(v) == v.t \in {"num", "nan"}

\* v.name: a TypeError on null and undefined, undefined for a missing field
Prop(v, name) ==
  IF v.t \in {"null", "undefined"} THEN Thrown
  ELSE IF name \in DOMAIN v THEN v[name] ELSE Undefined

\* v?.name
OptProp(v, name) ==
  IF v.t \in {"null", "undefined"} THEN Undefined ELSE Prop(v, name)

\* v[0]
First(v) ==
  IF v.t \in {"null", "undefined"} THEN Thrown
  ELSE IF v.t = "arr" /\ Len(v.items) > 0 THEN v.items[1] ELSE Undefined

-----------------------------------------------------------------------------
(* Repositories, cache keys, request URLs and headers *)

Widgets == [owner |-> <<"a", "c", "m", "e">>, repo |-> <<"w", "i", "d", "g", "e", "t", "s">>]
Gears == [owner |-> <<"a", "c", "m", "e">>, repo |-> <<"g", "e", "a", "r", "s">>]
Repos == {Widgets, Gears}
Kinds == {"stars", "last-commit"}

\* faulty variant: the key lacks the repository name
StarsCacheKeyOwnerOnly(ref) ==
  <<"s", "t", "a", "r", "s", ":">> \o ref.owner

\* faulty variant: the key lacks its kind
StarsCacheKeyNoKind(ref) == ref.owner \o <<"/">> \o ref.repo

\* `stars:${owner}/${repo}`
StarsCacheKey(ref) ==
  <<"s", "t", "a", "r", "s", ":">> \o ref.owner \o <<"/">> \o ref.repo

\* faulty variant: the key of getRepoLastCommitDate has the prefix of getRepoStars
LastCommitCacheKeyAsStars(ref) ==
  <<"s", "t", "a", "r", "s", ":">> \o ref.owner \o <<"/">> \o ref.repo

\* `last-commit:${owner}/${repo}`
LastCommitCacheKey(ref) ==
  <<"l", "a", "s", "t", "-", "c", "o", "m", "m", "i", "t", ":">> \o ref.owner \o <<"/">> \o ref.repo

CacheKey(kind, ref) ==
  IF kind = "stars" THEN StarsCacheKey(ref) ELSE LastCommitCacheKey(ref)

\* the keys of the store that the model follows
Keys == {CacheKey(k, r) : k \in Kinds, r \in Repos}

ApiRepos == <<"h", "t", "t", "p", "s", ":", "/", "/", "a", "p", "i", ".", "g", "i", "t", "h", "u", "b", ".", "c", "o", "m", "/", "r", "e", "p", "o", "s", "/">>

\* `https://api.github.com/repos/${owner}/${repo}`
StarsUrl(ref) == ApiRepos \o ref.owner \o <<"/">> \o ref.repo

\* `https://api.github.com/repos/${owner}/${repo}/commits`
CommitsUrl(ref) ==
  ApiRepos \o ref.owner \o <<"/">> \o ref.repo \o <<"/", "c", "o", "m", "m", "i", "t", "s">>

\* faulty variant: the commit list is not limited
LastCommitRequestUrlUnlimited(url) == url

\* `${url}?per_page=1`
LastCommitRequestUrl(url) ==
  url \o <<"?", "p", "e", "r", "_", "p", "a", "g", "e", "=", "1">>

\* env.GITHUB_USER_AGENT and a configured env.GITHUB_TOKEN
UserAgent == Str(<<"s", "i", "t", "e">>)
SomeToken == Str(<<"t", "o", "k">>)
Tokens == {Undefined, SomeToken}

\* faulty variant: the token is never sent
HeadersWithoutToken(tok) ==
  [Accept |-> Str(<<"a", "p", "p", "l", "i", "c", "a", "t", "i", "o", "n", "/", "v", "n", "d", ".", "g", "i", "t", "h", "u", "b", "+", "j", "s", "o", "n">>),
   UserAgent |-> UserAgent,
   ApiVersion |-> Str(<<"2", "0", "2", "2", "-", "1", "1", "-", "2", "8">>)]

\* the headers object: Authorization is set only for a truthy token
Headers(tok) ==
  LET base == [Accept |-> Str(<<"a", "p", "p", "l", "i", "c", "a", "t", "i", "o", "n", "/", "v", "n", "d", ".", "g", "i", "t", "h", "u", "b", "+", "j", "s", "o", "n">>),
               UserAgent |-> UserAgent,
               ApiVersion |-> Str(<<"2", "0", "2", "2", "-", "1", "1", "-", "2", "8">>)]
  IN IF Truthy(tok)
     THEN [Accept |-> base.Accept, UserAgent |-> base.UserAgent,
           ApiVersion |-> base.ApiVersion,
           Authorization |-> Str(<<"B", "e", "a", "r", "e", "r", " ">> \o tok.s)]
     ELSE base

-----------------------------------------------------------------------------
(* The upstream API: what fetch() may answer for a request URL *)

Response(ok, status, body) ==
  [t |-> "response", ok |-> ok, status |-> status, body |-> body]

\* a body that response.json() rejects
Unparseable == [t |-> "unparseable"]
\* a body whose reading fails: response.text() and response.json() reject
Unreadable == [t |-> "unreadable"]
Obj == [t |-> "obj"]
Arr(items) == [t |-> "arr", items |-> items]

Date2025 == Str(<<"2", "0", "2", "5", "-", "0", "1", "-", "0", "1", "T", "0", "0", ":", "0", "0", ":", "0", "0", "Z">>)
Date2024 == Str(<<"2", "0", "2", "4", "-", "0", "6", "-", "3", "0", "T", "1", "2", ":", "0", "0", ":", "0", "0", "Z">>)

\* the star counts the API may report for a repository
UpstreamStars(ref) ==
  IF ref = Widgets THEN {Num(0, 0), Num(42, 0), Num(4, 5)} ELSE {Num(9, 0)}

\* the committer date of the most recent commit of a repository
UpstreamDates(ref) == IF ref = Widgets THEN {Date2025} ELSE {Date2024}

Commit(date) ==
  [t |-> "obj", commit |-> [t |-> "obj", committer |-> [t |-> "obj", date |-> date]]]

\* bodies of a 200 answer of the repository endpoint
StarsBodies(ref) ==
  {[t |-> "obj", stargazers_count |-> n] : n \in UpstreamStars(ref)}
    \cup {Unparseable, Null, Obj, [t |-> "obj", stargazers_count |-> Str(<<"4", "2">>)]}

\* bodies of a 200 answer of the commit-list endpoint
CommitsBodies(ref) ==
  {Arr(<<Commit(d)>>) : d \in UpstreamDates(ref)}
    \cup {Unparseable, Null, Obj, Arr(<<>>), Arr(<<Obj>>),
          Arr(<<[t |-> "obj", commit |-> Obj]>>),
          Arr(<<[t |-> "obj", commit |-> [t |-> "obj", committer |-> Obj]]>>),
          Arr(<<Commit(Str(<<>>))>>)}

ErrorStatuses == {403, 404, 500}
ErrorResponses ==
  {Response(FALSE, s, Unparseable) : s \in ErrorStatuses}
    \cup {Response(FALSE, 500, Unreadable)}

\* the answers fetch(url) may resolve to
Upstream(url) ==
  IF \E r \in Repos : url = StarsUrl(r)
  THEN LET r == CHOOSE r \in Repos : url = StarsUrl(r)
       IN {Response(TRUE, 200, b) : b \in StarsBodies(r)} \cup ErrorResponses
  ELSE IF \E r \in Repos : url = LastCommitRequestUrl(CommitsUrl(r))
  THEN LET r == CHOOSE r \in Repos : url = LastCommitRequestUrl(CommitsUrl(r))
       IN {Response(TRUE, 200, b) : b \in CommitsBodies(r)} \cup ErrorResponses
  ELSE IF \E r \in Repos : url = CommitsUrl(r)
  THEN LET r == CHOOSE r \in Repos : url = CommitsUrl(r)
       IN {Response(TRUE, 200, Arr(<<Commit(d), Commit(Date2024)>>)) :
             d \in UpstreamDates(r)} \cup ErrorResponses
  ELSE {Response(FALSE, 404, Unparseable)}

\* response.json(): the parsed body, or a rejection
Json(response) ==
  IF response.body.t \in {"unparseable", "unreadable"} THEN Thrown
  ELSE response.body

\* response.text().catch(() => ""): the text that is logged (not its content)
TextOrEmpty(response) ==
  IF response.body.t = "unreadable" THEN Str(<<>>) ELSE Str(<<"b", "o", "d", "y">>)

-----------------------------------------------------------------------------
(* The two functions, one operator per stretch of code between two awaits. *)
(* Each yields what the invocation does next: go on to its next await,     *)
(* return a value (the promise fulfils) or let an exception escape (the    *)
(* promise rejects).                                                       *)

Goto(next, value) ==
  [next |-> next, settled |-> "pending", result |-> Undefined, value |-> value]
Return(v) ==
  [next |-> "done", settled |-> "fulfilled", result |-> v, value |-> Undefined]
Reject ==
  [next |-> "done", settled |-> "rejected", result |-> Undefined, value |-> Undefined]

\* faulty variant: the cache read is outside any try block
StarsOnCacheReadUncaught(maybeCached) ==
  IF maybeCached.t = "throw" THEN Reject
  ELSE IF Truthy(maybeCached)
       THEN LET parsed == ParseInt(maybeCached.s)
            IN IF IsFinite(parsed) THEN Return(parsed) ELSE Goto("fetch", Undefined)
       ELSE Goto("fetch", Undefined)

\* faulty variant: a failed cache read ends the invocation
StarsOnCacheReadErrorFails(maybeCached) ==
  IF maybeCached.t = "throw" THEN Return(Null)
  ELSE IF Truthy(maybeCached)
       THEN LET parsed == ParseInt(maybeCached.s)
            IN IF IsFinite(parsed) THEN Return(parsed) ELSE Goto("fetch", Undefined)
       ELSE Goto("fetch", Undefined)

\* faulty variant: the cached value is never used
StarsOnCacheReadIgnored(maybeCached) == Goto("fetch", Undefined)

\* faulty variant: the parsed value is returned without Number.isFinite
StarsOnCacheReadUnchecked(maybeCached) ==
  IF maybeCached.t = "throw" THEN Goto("fetch", Undefined)
  ELSE IF Truthy(maybeCached) THEN Return(ParseInt(maybeCached.s))
  ELSE Goto("fetch", Undefined)

\* getRepoStars after `await env.REPO_CACHE.get(cacheKey)`
StarsOnCacheRead(maybeCached) ==
  IF maybeCached.t = "throw" THEN Goto("fetch", Undefined)
  ELSE IF Truthy(maybeCached)
       THEN LET parsed == ParseInt(maybeCached.s)
            IN IF IsFinite(parsed) THEN Return(parsed) ELSE Goto("fetch", Undefined)
       ELSE Goto("fetch", Undefined)

\* faulty variant: a network error is not caught
StarsOnFetchUncaught(response) ==
  IF response.t = "throw" THEN Reject ELSE Goto("body", Undefined)

\* getRepoStars after `await fetch(url, { headers })`
StarsOnFetch(response) ==
  IF response.t = "throw" THEN Return(Null) ELSE Goto("body", Undefined)

\* faulty variant: a missing or non-numeric count counts as 0
StarsOfDefaultZero(data) ==
  LET count == Prop(data, "stargazers_count")
  IN IF count.t = "throw" THEN Thrown
     ELSE IF TypeofNumber(count) THEN count ELSE Num(0, 0)

\* typeof data.stargazers_count === "number" ? data.stargazers_count : null
StarsOf(data) ==
  LET count == Prop(data, "stargazers_count")
  IN IF count.t = "throw" THEN Thrown
     ELSE IF TypeofNumber(count) THEN count ELSE Null

\* faulty variant: a non-ok answer is fetched again
StarsOnBodyRetries(response) ==
  IF ~response.ok THEN Goto("fetch", Undefined)
  ELSE LET data == Json(response)
       IN IF data.t = "throw" THEN Return(Null)
          ELSE LET stars == StarsOf(data)
               IN IF stars.t = "throw" THEN Return(Null)
                  ELSE IF stars.t # "null" THEN Goto("put", stars)
                  ELSE Return(stars)

\* getRepoStars once the response is there: response.ok, response.json()
StarsOnBody(response) ==
  IF ~response.ok THEN LET body == TextOrEmpty(response) IN Return(Null)
  ELSE LET data == Json(response)
       IN IF data.t = "throw" THEN Return(Null)
          ELSE LET stars == StarsOf(data)
               IN IF stars.t = "throw" THEN Return(Null)
                  ELSE IF stars.t # "null" THEN Goto("put", stars)
                  ELSE Return(stars)

\* String(stars), the value getRepoStars puts
StarsCacheValue(stars) == Str(NumberToString(stars))

\* faulty variant: a failed cache write reaches the outer catch
StarsOnPutErrorFails(stars, threw) ==
  IF threw THEN Return(Null) ELSE Return(stars)

\* getRepoStars after `await env.REPO_CACHE.put(...)`
StarsOnPut(stars, threw) == Return(stars)

\* getRepoLastCommitDate after `await env.REPO_CACHE.get(cacheKey)`
LastCommitOnCacheRead(maybeCached) ==
  IF maybeCached.t = "throw" THEN Goto("fetch", Undefined)
  ELSE IF Truthy(maybeCached) THEN Return(maybeCached)
  ELSE Goto("fetch", Undefined)

\* getRepoLastCommitDate after `await fetch(requestUrl, { headers })`
LastCommitOnFetch(response) ==
  IF response.t = "throw" THEN Return(Null) ELSE Goto("body", Undefined)

\* data[0]?.commit?.committer?.date
LastCommitDateOf(data) ==
  LET first == First(data)
  IN IF first.t = "throw" THEN Thrown
     ELSE OptProp(OptProp(OptProp(first, "commit"), "committer"), "date")

\* getRepoLastCommitDate once the response is there
LastCommitOnBody(response) ==
  IF ~response.ok THEN LET body == TextOrEmpty(response) IN Return(Null)
  ELSE LET data == Json(response)
       IN IF data.t = "throw" THEN Return(Null)
          ELSE LET lastCommitDate == LastCommitDateOf(data)
               IN IF lastCommitDate.t = "throw" THEN Return(Null)
                  ELSE IF ~Truthy(lastCommitDate) THEN Return(Null)
                  ELSE Goto("put", lastCommitDate)

\* the value getRepoLastCommitDate puts
LastCommitCacheValue(lastCommitDate) == lastCommitDate

\* getRepoLastCommitDate after `await env.REPO_CACHE.put(...)`
LastCommitOnPut(lastCommitDate, threw) == Return(lastCommitDate)

-----------------------------------------------------------------------------
(* The earlier variants of getRepoStars, which use the binding STARS_CACHE:  *)
(* the plain one and the instrumented one (timing logs, a finally block).    *)

\* plain variant after `await env.STARS_CACHE.get(cacheKey)`
StarsCacheOnCacheRead(maybeCached) ==
  IF maybeCached.t = "throw" THEN Goto("fetch", Undefined)
  ELSE IF Truthy(maybeCached)
       THEN LET parsed == ParseInt(maybeCached.s)
            IN IF IsFinite(parsed) THEN Return(parsed) ELSE Goto("fetch", Undefined)
       ELSE Goto("fetch", Undefined)

\* plain variant after `await fetch(url, { headers })`
StarsCacheOnFetch(response) ==
  IF response.t = "throw" THEN Return(Null) ELSE Goto("body", Undefined)

\* plain variant once the response is there
StarsCacheOnBody(response) ==
  IF ~response.ok THEN LET body == TextOrEmpty(response) IN Return(Null)
  ELSE LET data == Json(response)
       IN IF data.t = "throw" THEN Return(Null)
          ELSE LET count == Prop(data, "stargazers_count")
                   stars == IF count.t = "throw" THEN Thrown
                            ELSE IF TypeofNumber(count) THEN count ELSE Null
               IN IF stars.t = "throw" THEN Return(Null)
                  ELSE IF stars.t # "null" THEN Goto("put", stars)
                  ELSE Return(stars)

\* plain variant after `await env.STARS_CACHE.put(...)`
StarsCacheOnPut(stars, threw) == Return(stars)

\* faulty variant: the finally block ends with a return of its own, which
\* replaces the completion of the try or catch block
FinallyReturns(step) == [step EXCEPT !.result = Undefined]

\* the finally block of the instrumented variant: it logs the duration and
\* has no return, so the completion of the try or catch block stands; it
\* runs when that block completes, not at an await
Finally(step) == step

\* instrumented variant after `await env.STARS_CACHE.get(cacheKey)`; this
\* try block is not the one with the finally block
InstrumentedOnCacheRead(maybeCached) ==
  IF maybeCached.t = "throw" THEN Goto("fetch", Undefined)
  ELSE IF Truthy(maybeCached)
       THEN LET parsed == ParseInt(maybeCached.s)
            IN IF IsFinite(parsed) THEN Return(parsed) ELSE Goto("fetch", Undefined)
       ELSE Goto("fetch", Undefined)

\* instrumented variant after `await fetch(url, { headers })`
InstrumentedOnFetch(response) ==
  IF response.t = "throw" THEN Finally(Return(Null)) ELSE Goto("body", Undefined)

\* instrumented variant once the response is there
InstrumentedOnBody(response) ==
  IF ~response.ok THEN LET body == TextOrEmpty(response) IN Finally(Return(Null))
  ELSE LET data == Json(response)
       IN IF data.t = "throw" THEN Finally(Return(Null))
          ELSE LET count == Prop(data, "stargazers_count")
                   stars == IF count.t = "throw" THEN Thrown
                            ELSE IF TypeofNumber(count) THEN count ELSE Null
               IN IF stars.t = "throw" THEN Finally(Return(Null))
                  ELSE IF stars.t # "null" THEN Goto("put", stars)
                  ELSE Finally(Return(stars))

\* instrumented variant after `await env.STARS_CACHE.put(...)`
InstrumentedOnPut(stars, threw) == Finally(Return(stars))

-----------------------------------------------------------------------------
(* Dispatch on the function called *)

Url(kind, ref) == IF kind = "stars" THEN StarsUrl(ref) ELSE CommitsUrl(ref)
RequestUrl(kind, url) ==
  IF kind = "stars" THEN url ELSE LastCommitRequestUrl(url)
OnCacheRead(kind, maybeCached) ==
  IF kind = "stars" THEN StarsOnCacheRead(maybeCached)
  ELSE LastCommitOnCacheRead(maybeCached)
OnFetch(kind, response) ==
  IF kind = "stars" THEN StarsOnFetch(response) ELSE LastCommitOnFetch(response)
OnBody(kind, response) ==
  IF kind = "stars" THEN StarsOnBody(response) ELSE LastCommitOnBody(response)
CacheValue(kind, value) ==
  IF kind = "stars" THEN StarsCacheValue(value) ELSE LastCommitCacheValue(value)
OnPut(kind, value, threw) ==
  IF kind = "stars" THEN StarsOnPut(value, threw) ELSE LastCommitOnPut(value, threw)

\* the deployed variant of functions.ts: the current one (binding
\* REPO_CACHE, both functions) or one of the two earlier ones (binding
\* STARS_CACHE, getRepoStars only)
Deployments == {"current", "stars-cache", "instrumented"}
FunctionsOf(d) == IF d = "current" THEN Kinds ELSE {"stars"}

\* faulty variant: every deployment writes with the TTL of the current one
TtlOfCurrentOnly(d) == ExpirationTtl

\* the expirationTtl the deployed code passes to put
Ttl(d) == IF d = "current" THEN ExpirationTtl ELSE ExpirationTtlStarsCache

DeployedOnCacheRead(d, kind, maybeCached) ==
  IF d = "current" THEN OnCacheRead(kind, maybeCached)
  ELSE IF d = "stars-cache" THEN StarsCacheOnCacheRead(maybeCached)
  ELSE InstrumentedOnCacheRead(maybeCached)
DeployedOnFetch(d, kind, response) ==
  IF d = "current" THEN OnFetch(kind, response)
  ELSE IF d = "stars-cache" THEN StarsCacheOnFetch(response)
  ELSE InstrumentedOnFetch(response)
DeployedOnBody(d, kind, response) ==
  IF d = "current" THEN OnBody(kind, response)
  ELSE IF d = "stars-cache" THEN StarsCacheOnBody(response)
  ELSE InstrumentedOnBody(response)
DeployedOnPut(d, kind, value, threw) ==
  IF d = "current" THEN OnPut(kind, value, threw)
  ELSE IF d = "stars-cache" THEN StarsCacheOnPut(value, threw)
  ELSE InstrumentedOnPut(value, threw)

-----------------------------------------------------------------------------
(* State *)

VARIABLES
  page,    \* ProjectsList: its project list, position and rendered cards
  deployment, \* the variant of functions.ts that is deployed
  cache,   \* the KV namespace: the keys present, each with its value and TTL
  token,   \* env.GITHUB_TOKEN
  inv,     \* the invocations: position, locals, result and call counts
  button,  \* CopyButton: its state, clipboard writes in flight and timers
  scroller, \* ScrollToTop: its effect's flag, listener and observer
  blog     \* the blog: the posts, the request and what was rendered

\* the variables of the repository lookups and of ProjectsList
lookups == <<page, deployment, cache, token, inv>>
\* the variables of the other components
components == <<button, scroller, blog>>

vars == <<lookups, components>>

\* a component that is not part of the page under study
Absent == [pc |-> "absent"]
ComponentsAbsent == button = Absent /\ scroller = Absent /\ blog = Absent

\* Spec: a first invocation and a second one, which may overlap it
Calls == {1, 2}
\* SpecSingleFair: one invocation
Single == {1}
\* SpecRace: the invocations that race on one key
Racers == 1..MaxRacers

Entry(value) == [value |-> value, expirationTtl |-> ExpirationTtl]

\* REPO_CACHE.get(key): the value, or null for an absent key
KvGetValue(store, key) ==
  IF key \in DOMAIN store THEN store[key].value ELSE Null

\* REPO_CACHE.put(key, value, { expirationTtl })
KvPutValue(store, key, value, ttl) ==
  [k \in DOMAIN store \cup {key} |->
     IF k = key THEN [value |-> value, expirationTtl |-> ttl] ELSE store[k]]

\* the store drops an entry whose TTL has run out
KvExpire(store, key) == [k \in DOMAIN store \ {key} |-> store[k]]

Idle ==
  [pc |-> "idle", kind |-> "none", ref |-> Undefined, url |-> <<>>,
   headers |-> Undefined, cacheKey |-> <<>>, maybeCached |-> Undefined,
   request |-> Undefined, response |-> Undefined, value |-> Undefined,
   read |-> "none", put |-> "none", result |-> Undefined, settled |-> "pending",
   gets |-> 0, fetches |-> 0, puts |-> 0]

\* what the store may hold for a key before the first invocation: nothing,
\* the empty string, a value an earlier invocation wrote, or a damaged value
InitValues(kind, ref) ==
  IF ref = Gears
  THEN (IF kind = "stars" THEN {Str(<<"9">>)} ELSE {Date2024})
  ELSE IF kind = "stars"
  THEN {Str(<<>>), Str(<<"7">>), Str(<<"7", "x">>), Str(<<"x">>)}
  ELSE {Str(<<>>), Date2024}

EmptyCache == [k \in {} |-> Null]

\* no ProjectsList is being rendered
NoPage ==
  [pc |-> "none", variant |-> "none", projects |-> <<>>, items |-> <<>>,
   cards |-> <<>>]

\* the initial stores: empty, or holding one entry
InitCaches ==
  {EmptyCache} \cup
  UNION {{KvPutValue(EmptyCache, CacheKey(kind, ref), v, ExpirationTtl) :
            v \in InitValues(kind, ref)} : kind \in Kinds, ref \in Repos}

Init ==
  /\ ComponentsAbsent
  /\ page = NoPage
  /\ deployment = "current"
  /\ cache \in InitCaches
  /\ token \in Tokens
  /\ inv = [p \in Calls |-> Idle]

-----------------------------------------------------------------------------
(* Actions: the call of a function, then one action per await *)

\* an invocation at its first await: url, headers and cacheKey are built
Started(kind, ref, tok) ==
  [Idle EXCEPT !.pc = "get", !.kind = kind, !.ref = ref,
               !.url = Url(kind, ref),
               !.headers = Headers(tok),
               !.cacheKey = CacheKey(kind, ref)]

\* getRepoStars({owner, repo}) or getRepoLastCommitDate({owner, repo}) is
\* called: url, headers and cacheKey are built, up to the first await
Call(p, kind, ref) ==
  /\ inv[p].pc = "idle"
  /\ IF p = 1 THEN TRUE ELSE inv[p - 1].pc # "idle"
  /\ kind \in FunctionsOf(deployment)
  /\ inv' = [inv EXCEPT ![p] = Started(kind, ref, token)]
  /\ UNCHANGED <<components, page, deployment, cache, token>>

\* how the cache read ended: it threw, it gave the value returned, or neither
ReadOutcome(maybeCached, step) ==
  IF maybeCached.t = "throw" THEN "error"
  ELSE IF step.next = "done" THEN "hit" ELSE "miss"

\* `await env.REPO_CACHE.get(cacheKey)` resolves or throws
KvGet(p) ==
  /\ inv[p].pc = "get"
  /\ \E threw \in BOOLEAN :
       LET maybeCached == IF threw THEN Thrown
                          ELSE KvGetValue(cache, inv[p].cacheKey)
           step == DeployedOnCacheRead(deployment, inv[p].kind, maybeCached)
       IN inv' = [inv EXCEPT ![p] =
                    [@ EXCEPT !.pc = step.next, !.maybeCached = maybeCached,
                              !.read = ReadOutcome(maybeCached, step),
                              !.result = step.result, !.settled = step.settled,
                              !.gets = @ + 1]]
  /\ UNCHANGED <<components, page, deployment, cache, token>>

\* the answers `await fetch(url, { headers })` may get: one of the
\* responses the API has for the URL, or a network error
Answers(p) ==
  Upstream(RequestUrl(inv[p].kind, inv[p].url)) \cup {Thrown}

\* `await fetch(url, { headers })` resolves to the given response or throws
FetchGets(p, response) ==
  /\ inv[p].pc = "fetch"
  /\ response \in Answers(p)
  /\ LET step == DeployedOnFetch(deployment, inv[p].kind, response)
     IN inv' = [inv EXCEPT ![p] =
                  [@ EXCEPT !.pc = step.next,
                            !.maybeCached = Undefined,
                            !.request = [url |-> RequestUrl(inv[p].kind, inv[p].url),
                                         headers |-> inv[p].headers],
                            !.response = response,
                            !.result = step.result,
                            !.settled = step.settled,
                            !.fetches = @ + 1]]
  /\ UNCHANGED <<components, page, deployment, cache, token>>

\* `await fetch(url, { headers })` with any of its answers
Fetch(p) == \E response \in Answers(p) : FetchGets(p, response)

\* `await response.text()` of a non-ok response, or `await response.json()`
Body(p) ==
  /\ inv[p].pc = "body"
  /\ LET step == DeployedOnBody(deployment, inv[p].kind, inv[p].response)
     IN inv' = [inv EXCEPT ![p] =
                  [@ EXCEPT !.pc = step.next, !.value = step.value,
                            !.result = step.result, !.settled = step.settled]]
  /\ UNCHANGED <<components, page, deployment, cache, token>>

\* `await env.REPO_CACHE.put(cacheKey, value, { expirationTtl })` (in the
\* earlier variants env.STARS_CACHE.put) resolves, having written, or
\* throws, having written nothing
KvPut(p) ==
  /\ inv[p].pc = "put"
  /\ \E threw \in BOOLEAN :
       LET step == DeployedOnPut(deployment, inv[p].kind, inv[p].value, threw)
       IN /\ cache' = IF threw THEN cache
                      ELSE KvPutValue(cache, inv[p].cacheKey,
                                      CacheValue(inv[p].kind, inv[p].value),
                                      Ttl(deployment))
          /\ inv' = [inv EXCEPT ![p] =
                       [@ EXCEPT !.pc = step.next,
                                 !.put = IF threw THEN "error" ELSE "ok",
                                 !.result = step.result,
                                 !.settled = step.settled,
                                 !.puts = @ + 1]]
  /\ UNCHANGED <<components, page, deployment, token>>

\* the store expires an entry
Expire(key) ==
  /\ key \in DOMAIN cache
  /\ cache' = KvExpire(cache, key)
  /\ UNCHANGED <<components, page, deployment, token, inv>>

\* the repository the invocations of the model are made for; the store also
\* holds entries of the other repository
Called == {Widgets}

Next ==
  \/ \E p \in DOMAIN inv, kind \in Kinds, ref \in Called : Call(p, kind, ref)
  \/ \E p \in DOMAIN inv : KvGet(p)
  \/ \E p \in DOMAIN inv : Fetch(p)
  \/ \E p \in DOMAIN inv : Body(p)
  \/ \E p \in DOMAIN inv : KvPut(p)
  \/ \E key \in Keys : Expire(key)

\* two invocations, of either function, for every initial store
Spec == Init /\ [][Next]_vars

\* the next await of invocation p settles
Step(p) == KvGet(p) \/ Fetch(p) \/ Body(p) \/ KvPut(p)

\* one invocation, of either function, for every initial store
InitSingle ==
  /\ ComponentsAbsent
  /\ page = NoPage
  /\ deployment = "current"
  /\ cache \in InitCaches
  /\ token \in Tokens
  /\ inv = [p \in Single |-> Idle]

\* one invocation whose awaits all settle in the end: the store and the HTTP
\* client answer or fail, they do not hang
SpecSingleFair ==
  InitSingle /\ [][Next]_vars /\ \A p \in Single : WF_vars(Step(p))

\* MaxRacers invocations of getRepoStars for one repository
InitRace ==
  /\ ComponentsAbsent
  /\ page = NoPage
  /\ deployment = "current"
  /\ cache \in {c \in InitCaches :
                  \A k \in DOMAIN c : k # LastCommitCacheKey(Widgets)
                                       /\ c[k].value \in {Str(<<"7">>), Str(<<"x">>), Str(<<"9">>)}}
  /\ token = SomeToken
  /\ inv = [p \in Racers |-> Idle]

\* one answer of each class: network error, non-ok status, malformed
\* payload, and every valid star count
RaceAnswers ==
  {Thrown, Response(FALSE, 403, Unparseable), Response(TRUE, 200, Obj)}
    \cup {Response(TRUE, 200, [t |-> "obj", stargazers_count |-> n]) :
            n \in UpstreamStars(Widgets)}

NextRace ==
  \/ \E p \in DOMAIN inv : Call(p, "stars", Widgets)
  \/ \E p \in DOMAIN inv : KvGet(p)
  \/ \E p \in DOMAIN inv, response \in RaceAnswers : FetchGets(p, response)
  \/ \E p \in DOMAIN inv : Body(p)
  \/ \E p \in DOMAIN inv : KvPut(p)
  \/ \E key \in Keys : Expire(key)

SpecRace == InitRace /\ [][NextRace]_vars

\* one answer of each class for either function
DeployAnswers(kind) ==
  IF kind = "stars" THEN RaceAnswers
  ELSE {Thrown, Response(FALSE, 404, Unparseable), Response(TRUE, 200, Arr(<<>>)),
        Response(TRUE, 200, Arr(<<Commit(Date2025)>>))}

\* any of the three variants is deployed; its store is empty or holds one
\* entry that an earlier invocation of the same deployment wrote, for
\* acme/widgets or for the other repository
InitDeploy ==
  /\ ComponentsAbsent
  /\ page = NoPage
  /\ deployment \in Deployments
  /\ cache \in {EmptyCache,
                KvPutValue(EmptyCache, StarsCacheKey(Gears), Str(<<"9">>),
                           Ttl(deployment))} \cup
              {KvPutValue(EmptyCache, CacheKey(kind, Widgets),
                          IF kind = "stars" THEN Str(<<"7">>) ELSE Date2024,
                          Ttl(deployment)) : kind \in FunctionsOf(deployment)}
  /\ token = SomeToken
  /\ inv = [p \in Calls |-> Idle]

NextDeploy ==
  \/ \E p \in DOMAIN inv, kind \in Kinds : Call(p, kind, Widgets)
  \/ \E p \in DOMAIN inv : KvGet(p)
  \/ \E p \in DOMAIN inv :
       \E response \in DeployAnswers(inv[p].kind) : FetchGets(p, response)
  \/ \E p \in DOMAIN inv : Body(p)
  \/ \E p \in DOMAIN inv : KvPut(p)
  \/ \E key \in Keys : Expire(key)

\* two invocations under each of the three deployed variants
SpecDeploy == InitDeploy /\ [][NextDeploy]_vars

-----------------------------------------------------------------------------
(* ProjectsList (projects-list.tsx): the project data, Date, Array.sort and *)
(* the cards it renders                                                      *)

\* a ProjectItem of projects.data.ts, with the fields the list uses
ProjectItem(title, date, ref) ==
  [t |-> "obj", title |-> Str(title), date |-> Str(date),
   repo |-> [owner |-> ref.owner, name |-> ref.repo]]

WidgetsProject == ProjectItem(<<"W", "i", "d", "g", "e", "t", "s">>, <<"2", "0", "2", "5", "-", "0", "4", "-", "2", "4">>, Widgets)
GearsProject == ProjectItem(<<"G", "e", "a", "r", "s">>, <<"2", "0", "2", "5", "-", "0", "5", "-", "0", "6">>, Gears)

\* the values of `projects` the model follows
ProjectLists ==
  {<<WidgetsProject, GearsProject>>, <<GearsProject, WidgetsProject>>}

\* { owner: p.repo.owner, repo: p.repo.name }
RefOf(p) == [owner |-> p.repo.owner, repo |-> p.repo.name]

\* the number written by the digits s[from..to], -1 when one is no digit
Field(s, from, to) ==
  IF \A i \in from..to : IsDigit(s[i])
  THEN DigitsValue(SubSeq(s, from, to), 0) ELSE -1

\* the days from 1970-01-01 to the day d of month m of year y
DaysFromCivil(y, m, d) ==
  LET yy == IF m <= 2 THEN y - 1 ELSE y
      era == yy \div 400
      yoe == yy - era * 400
      mp == (m + 9) % 12
      doy == (153 * mp + 2) \div 5 + d - 1
      doe == yoe * 365 + yoe \div 4 - yoe \div 100 + doy
  IN era * 146097 + doe - 719468

\* new Date(v).getTime(), in seconds instead of milliseconds: the time of
\* the ISO forms YYYY-MM-DD and YYYY-MM-DDTHH:mm:ssZ, both UTC, and NaN
\* (Invalid Date) for any other string
GetTime(v) ==
  LET s == v.s
      dateOk == /\ Len(s) >= 10 /\ s[5] = "-" /\ s[8] = "-"
                /\ Field(s, 1, 4) >= 0
                /\ Field(s, 6, 7) \in 1..12 /\ Field(s, 9, 10) \in 1..31
      timeOk == /\ Len(s) = 20 /\ s[11] = "T" /\ s[14] = ":" /\ s[17] = ":"
                /\ s[20] = "Z"
                /\ Field(s, 12, 13) \in 0..23 /\ Field(s, 15, 16) \in 0..59
                /\ Field(s, 18, 19) \in 0..59
      days == DaysFromCivil(Field(s, 1, 4), Field(s, 6, 7), Field(s, 9, 10))
  IN IF dateOk /\ Len(s) = 10 THEN Num(days * 86400, 0)
     ELSE IF dateOk /\ timeOk
     THEN Num(days * 86400 + Field(s, 12, 13) * 3600 + Field(s, 15, 16) * 60
                + Field(s, 18, 19), 0)
     ELSE NaN

\* bTime - aTime
Minus(bTime, aTime) ==
  IF aTime.t = "nan" \/ bTime.t = "nan" THEN NaN
  ELSE Num(bTime.whole - aTime.whole, 0)

\* a.lastCommitDate || a.date
EffectiveDate(a) ==
  IF Truthy(a.lastCommitDate) THEN a.lastCommitDate ELSE a.date

\* the comparator of the fetch-then-sort variant
ByEffectiveDate(a, b) ==
  LET aTime == GetTime(EffectiveDate(a))
      bTime == GetTime(EffectiveDate(b))
  IN Minus(bTime, aTime)

\* the comparator of the sort-then-fetch variant
ByDate(a, b) ==
  LET aTime == GetTime(a.date)
      bTime == GetTime(b.date)
  IN Minus(bTime, aTime)

\* the orders in which n elements can be arranged
Orders(n) ==
  {f \in [1..n -> 1..n] : \A i, j \in 1..n : i # j => f[i] # f[j]}

\* what sort makes of a comparator's answer: NaN counts as 0
SortCompare(v) == IF v.t = "nan" THEN 0 ELSE v.whole

\* Array.prototype.sort: the arrays it may give when c[i][j] is what the
\* comparator makes of items[i] and items[j]. With a consistent comparator
\* the stable ascending order; with an inconsistent one (NaN answers can
\* make it so) the order is implementation-defined
SortedBy(items, c) ==
  LET n == Len(items)
      consistent ==
        \A i, j, k \in 1..n :
          /\ (c[i][j] = 0 /\ c[j][k] = 0) => c[i][k] = 0
          /\ (c[i][j] < 0 /\ c[j][k] < 0) => c[i][k] < 0
          /\ (c[i][j] > 0 /\ c[j][k] > 0) => c[i][k] > 0
      sorts(f) ==
        \A k, l \in 1..n :
          k < l => (c[f[k]][f[l]] < 0 \/ (c[f[k]][f[l]] = 0 /\ f[k] < f[l]))
  IN {[k \in 1..n |-> items[f[k]]] :
        f \in {f \in Orders(n) : consistent => sorts(f)}}

\* the comparator passed to sort, by its name
Compare(comparator, a, b) ==
  IF comparator = "ByDate" THEN ByDate(a, b) ELSE ByEffectiveDate(a, b)

\* items.sort(comparator), the comparator being asked about every pair
SortResults(items, comparator) ==
  SortedBy(items, [i \in 1..Len(items) |->
                    [j \in 1..Len(items) |->
                       SortCompare(Compare(comparator, items[i], items[j]))]])

\* [...projects].map((project, idx) => ({ ...project, lastCommitDate:
\* lastCommitDates[idx], stars: stars[idx] }))
EnrichedItems(projects, stars, lastCommitDates) ==
  [idx \in 1..Len(projects) |->
     [t |-> "obj", title |-> projects[idx].title, date |-> projects[idx].date,
      repo |-> projects[idx].repo,
      lastCommitDate |-> lastCommitDates[idx], stars |-> stars[idx]]]

\* faulty variant: the list is sorted before the results are attached by index
ItemsSortedBeforeEnriched(projects, stars, lastCommitDates) ==
  {EnrichedItems(sorted, stars, lastCommitDates) :
     sorted \in SortResults(projects, "ByDate")}

\* faulty variant: the enriched list is sorted by the static date alone
ItemsSortedByStaticDate(projects, stars, lastCommitDates) ==
  SortResults(EnrichedItems(projects, stars, lastCommitDates), "ByDate")

\* the arrays `items` may be in the fetch-then-sort variant: the enriched
\* copy of the list, sorted by effective date
FetchThenSortItems(projects, stars, lastCommitDates) ==
  SortResults(EnrichedItems(projects, stars, lastCommitDates), "ByEffectiveDate")

\* the character U+2014 of the placeholder
EmDash == "emdash"

\* v ?? "—"
OrPlaceholder(v) ==
  IF v.t \in {"null", "undefined"} THEN Str(<<EmDash>>) ELSE v

\* `${p.repo.owner}/${p.repo.name}`
CardKey(p) == p.repo.owner \o <<"/">> \o p.repo.name

\* the card of an enriched item: its key, its title, the date handed to the
\* date formatter and the content of the star badge
EnrichedCard(p) ==
  [key |-> CardKey(p), title |-> p.title,
   lastUpdated |-> IF Truthy(p.lastCommitDate) THEN p.lastCommitDate ELSE p.date,
   stars |-> OrPlaceholder(p.stars)]

\* the card of the sort-then-fetch variant: key, title and star badge
StarsCard(p, stars, idx) ==
  [key |-> CardKey(p), title |-> p.title, stars |-> OrPlaceholder(stars[idx])]

-----------------------------------------------------------------------------
(* ProjectsList as a process: it starts its lookups, awaits them all and    *)
(* renders. Stars lookups are the invocations 1..n in list order; in the    *)
(* fetch-then-sort variant the last-commit lookups are n+1..2n.             *)

Variants == {"fetch-then-sort", "sort-then-fetch"}

\* ProjectsList is about to be called with the given project list
PageAt(variant, projects) ==
  [pc |-> "start", variant |-> variant, projects |-> projects, items |-> <<>>,
   cards |-> <<>>]

\* the invocations one ProjectsList makes
LookupsOf(variant, projects) ==
  IF variant = "fetch-then-sort" THEN 1..(2 * Len(projects))
  ELSE 1..Len(projects)

\* faulty variant: the first lookup is awaited before the next is called
ProjectsListStartFirstOnly ==
  /\ page.pc = "start" /\ page.variant = "fetch-then-sort"
  /\ inv' = [inv EXCEPT ![1] = Started("stars", RefOf(page.projects[1]), token)]
  /\ page' = [page EXCEPT !.pc = "awaiting"]
  /\ UNCHANGED <<components, deployment, cache, token>>

\* fetch-then-sort, up to `await Promise.all([...])`: both maps call their
\* function for every project, each call running up to its first await
ProjectsListStart ==
  /\ page.pc = "start" /\ page.variant = "fetch-then-sort"
  /\ LET n == Len(page.projects)
     IN inv' = [p \in 1..(2 * n) |->
                  IF p <= n
                  THEN Started("stars", RefOf(page.projects[p]), token)
                  ELSE Started("last-commit", RefOf(page.projects[p - n]), token)]
  /\ page' = [page EXCEPT !.pc = "awaiting"]
  /\ UNCHANGED <<components, deployment, cache, token>>

\* sort-then-fetch, up to `await Promise.all(...)`: the copy of the list is
\* sorted by static date, then getRepoStars is called for every item
ProjectsListSortThenStart ==
  /\ page.pc = "start" /\ page.variant = "sort-then-fetch"
  /\ \E items \in SortResults(page.projects, "ByDate") :
       /\ inv' = [p \in 1..Len(items) |-> Started("stars", RefOf(items[p]), token)]
       /\ page' = [page EXCEPT !.pc = "awaiting", !.items = items]
  /\ UNCHANGED <<components, deployment, cache, token>>

\* Promise.all settles: it rejects once a lookup has rejected, and fulfils
\* with the results in call order once all have fulfilled; then the list is
\* built, sorted (fetch-then-sort) and rendered
ProjectsListRender ==
  /\ page.pc = "awaiting"
  /\ \/ \E p \in DOMAIN inv : inv[p].settled = "rejected"
     \/ \A p \in DOMAIN inv : inv[p].settled = "fulfilled"
  /\ LET n == Len(page.projects)
         stars == [i \in 1..n |-> inv[i].result]
     IN IF \E p \in DOMAIN inv : inv[p].settled = "rejected"
        THEN page' = [page EXCEPT !.pc = "failed"]
        ELSE IF page.variant = "fetch-then-sort"
        THEN LET lastCommitDates == [i \in 1..n |-> inv[n + i].result]
             IN \E items \in FetchThenSortItems(page.projects, stars,
                                                 lastCommitDates) :
                  page' = [page EXCEPT
                             !.pc = "rendered", !.items = items,
                             !.cards = [i \in 1..n |-> EnrichedCard(items[i])]]
        ELSE page' = [page EXCEPT
                        !.pc = "rendered",
                        !.cards = [i \in 1..n |->
                                     StarsCard(page.items[i], stars, i)]]
  /\ UNCHANGED <<components, deployment, cache, token, inv>>

\* the answers followed for a lookup of ProjectsList: a network error or the
\* value of its repository
RenderAnswers(kind, ref) ==
  {Thrown} \cup
  (IF kind = "stars"
   THEN {Response(TRUE, 200, [t |-> "obj", stargazers_count |-> n]) :
           n \in UpstreamStars(ref) \ {Num(0, 0), Num(4, 5)}}
   ELSE {Response(TRUE, 200, Arr(<<Commit(d)>>)) : d \in UpstreamDates(ref)})

\* ProjectsList is called once: the fetch-then-sort variant with the current
\* functions, the sort-then-fetch variant with the earlier getRepoStars; the
\* store is empty or holds one entry of acme/widgets
InitRender ==
  /\ ComponentsAbsent
  /\ page \in {PageAt(v, l) : v \in Variants, l \in ProjectLists}
  /\ deployment = IF page.variant = "fetch-then-sort" THEN "current"
                  ELSE "stars-cache"
  /\ cache \in {EmptyCache} \cup
              {KvPutValue(EmptyCache, CacheKey(kind, Widgets),
                          IF kind = "stars" THEN Str(<<"7">>) ELSE Date2024,
                          Ttl(deployment)) : kind \in FunctionsOf(deployment)}
  /\ token = SomeToken
  /\ inv = [p \in LookupsOf(page.variant, page.projects) |-> Idle]

NextRender ==
  \/ ProjectsListStart
  \/ ProjectsListSortThenStart
  \/ \E p \in DOMAIN inv : KvGet(p)
  \/ \E p \in DOMAIN inv :
       \E response \in RenderAnswers(inv[p].kind, inv[p].ref) : FetchGets(p, response)
  \/ \E p \in DOMAIN inv : Body(p)
  \/ \E p \in DOMAIN inv : KvPut(p)
  \/ ProjectsListRender

\* one render of the projects page
SpecRender == InitRender /\ [][NextRender]_vars

\* the answers of a failing upstream: a network error or a non-ok status
OutageAnswers ==
  {Thrown, Response(FALSE, 403, Unparseable), Response(FALSE, 500, Unreadable)}

\* a render during a total outage: every cache read throws and every
\* upstream request fails
NextOutage ==
  \/ ProjectsListStart
  \/ ProjectsListSortThenStart
  \/ \E p \in DOMAIN inv : KvGet(p) /\ inv'[p].read = "error"
  \/ \E p \in DOMAIN inv : \E response \in OutageAnswers : FetchGets(p, response)
  \/ \E p \in DOMAIN inv : Body(p)
  \/ ProjectsListRender

SpecOutage == InitRender /\ [][NextOutage]_vars

-----------------------------------------------------------------------------
(* Vocabulary of the properties, stated on what an invocation saw *)

Invocations == DOMAIN inv
Settled(p) == inv[p].pc = "done"
Fetched(p) == inv[p].response.t \in {"response", "throw"}

\* the upstream request failed: a network error or a non-ok status
UpstreamFailed(p) ==
  \/ inv[p].response.t = "throw"
  \/ inv[p].response.t = "response" /\ ~inv[p].response.ok

\* a 200 answer whose body carries a number as stargazers_count
HasStars(r) ==
  /\ r.t = "response" /\ r.ok
  /\ r.body.t = "obj"
  /\ "stargazers_count" \in DOMAIN r.body
  /\ r.body.stargazers_count.t = "num"

\* a 200 answer whose first commit record carries a non-empty committer date
HasDate(r) ==
  /\ r.t = "response" /\ r.ok
  /\ r.body.t = "arr"
  /\ Len(r.body.items) > 0
  /\ "commit" \in DOMAIN r.body.items[1]
  /\ "committer" \in DOMAIN r.body.items[1].commit
  /\ "date" \in DOMAIN r.body.items[1].commit.committer
  /\ r.body.items[1].commit.committer.date.t = "str"
  /\ Len(r.body.items[1].commit.committer.date.s) > 0

HasValue(kind, r) == IF kind = "stars" THEN HasStars(r) ELSE HasDate(r)

\* the value a valid answer carries
ValueIn(kind, r) ==
  IF kind = "stars" THEN r.body.stargazers_count
  ELSE r.body.items[1].commit.committer.date

\* a 200 answer without a valid value
Malformed(kind, r) == r.t = "response" /\ r.ok /\ ~HasValue(kind, r)

\* a cached value the functions take as a hit
Warm(kind, v) ==
  /\ v.t = "str" /\ Len(v.s) > 0
  /\ kind = "stars" => ParseInt(v.s).t = "num"

StarsKeyOfWidgets == <<"s", "t", "a", "r", "s", ":", "a", "c", "m", "e", "/", "w", "i", "d", "g", "e", "t", "s">>
LastCommitKeyOfWidgets == <<"l", "a", "s", "t", "-", "c", "o", "m", "m", "i", "t", ":", "a", "c", "m", "e", "/", "w", "i", "d", "g", "e", "t", "s">>
KeyOfWidgets(kind) ==
  IF kind = "stars" THEN StarsKeyOfWidgets ELSE LastCommitKeyOfWidgets

-----------------------------------------------------------------------------
(* C1: when the cache read succeeds and holds a warm entry (for getRepoStars *)
(* a string that parses to a finite integer, for getRepoLastCommitDate any  *)
(* non-empty string), the invocation returns that entry and makes no        *)
(* upstream request and no cache write.                                      *)
C1_WarmEntryReturned ==
  \A p \in Invocations :
    (inv[p].gets = 1 /\ Warm(inv[p].kind, inv[p].maybeCached)) =>
      /\ Settled(p) /\ inv[p].settled = "fulfilled"
      /\ inv[p].result = IF inv[p].kind = "stars"
                         THEN ParseInt(inv[p].maybeCached.s)
                         ELSE inv[p].maybeCached
      /\ inv[p].fetches = 0 /\ inv[p].puts = 0
      /\ inv[p].request = Undefined /\ inv[p].put = "none"

C1_Witness ==
  \E p \in Invocations :
    /\ Settled(p) /\ inv[p].kind = "stars"
    /\ inv[p].maybeCached = Str(<<"7">>) /\ inv[p].result = Num(7, 0)
    /\ inv[p].gets = 1 /\ inv[p].fetches = 0 /\ inv[p].puts = 0

-----------------------------------------------------------------------------
(* C2: after a cache miss, a successful upstream answer with a valid value v *)
(* leads to exactly one upstream request, then exactly one put under the key *)
(* "stars:{owner}/{repo}" (resp. "last-commit:{owner}/{repo}") of String(v)  *)
(* with the configured TTL, and the invocation returns v. With an empty      *)
(* cache and {"stargazers_count": 42} for acme/widgets it returns 42 and     *)
(* writes "stars:acme/widgets" = "42".                                       *)
C2_MissThenFetchThenPut ==
  [][\A p \in Invocations :
       /\ (inv[p].pc = "body" /\ inv'[p].pc # "body"
           /\ HasValue(inv[p].kind, inv[p].response)) =>
            /\ inv'[p].pc = "put"
            /\ inv'[p].value = ValueIn(inv[p].kind, inv[p].response)
            /\ inv'[p].fetches = 1 /\ inv'[p].puts = 0
            /\ cache' = cache
       /\ (inv[p].pc = "put" /\ inv'[p].pc # "put") =>
            LET kind == inv[p].kind
                v == ValueIn(kind, inv[p].response)
                written == IF kind = "stars" THEN Str(NumberToString(v)) ELSE v
            IN /\ HasValue(kind, inv[p].response)
               /\ Settled(p)' /\ inv'[p].settled = "fulfilled"
               /\ inv'[p].result = v
               /\ inv'[p].fetches = 1 /\ inv'[p].puts = 1
               /\ inv'[p].put = "ok" =>
                    /\ KeyOfWidgets(kind) \in DOMAIN cache'
                    /\ cache'[KeyOfWidgets(kind)] =
                         [value |-> written, expirationTtl |-> 300]
                    /\ \A k \in (DOMAIN cache \cup DOMAIN cache') \ {KeyOfWidgets(kind)} :
                         k \in DOMAIN cache /\ k \in DOMAIN cache' /\ cache'[k] = cache[k]
               /\ (inv'[p].put = "ok" /\ v = Num(42, 0)) =>
                    cache'[StarsKeyOfWidgets].value = Str(<<"4", "2">>)
  ]_vars

C2_Witness ==
  \E p \in Invocations :
    /\ Settled(p) /\ inv[p].kind = "stars" /\ inv[p].read = "miss"
    /\ HasStars(inv[p].response)
    /\ ValueIn("stars", inv[p].response) = Num(42, 0)
    /\ inv[p].result = Num(42, 0) /\ inv[p].put = "ok"
    /\ inv[p].fetches = 1 /\ inv[p].puts = 1
    /\ StarsKeyOfWidgets \in DOMAIN cache
    /\ cache[StarsKeyOfWidgets] = [value |-> Str(<<"4", "2">>), expirationTtl |-> 300]

(* C3: after a cache miss, an upstream failure (a non-ok status such as 403, *)
(* 404 or 500, or a network error) makes both functions return null, raise  *)
(* no exception and make no put.                                             *)
C3_UpstreamFailureGivesNull ==
  \A p \in Invocations :
    (Fetched(p) /\ UpstreamFailed(p)) =>
      /\ inv[p].settled # "rejected"
      /\ inv[p].pc \in {"body", "done"}
      /\ inv[p].puts = 0 /\ inv[p].put = "none"
      /\ Settled(p) => (inv[p].settled = "fulfilled" /\ inv[p].result = Null)

C3_Witness ==
  \E p, q \in Invocations :
    /\ Settled(p) /\ inv[p].kind = "stars" /\ inv[p].read = "miss"
    /\ inv[p].response.t = "response" /\ inv[p].response.status = 403
    /\ inv[p].result = Null /\ inv[p].puts = 0
    /\ Settled(q) /\ inv[q].kind = "last-commit" /\ inv[q].read = "miss"
    /\ inv[q].response.t = "throw"
    /\ inv[q].result = Null /\ inv[q].puts = 0
    /\ cache = EmptyCache

(* C4: a cache read that throws does not prevent the upstream fetch: the     *)
(* invocation goes on as after a miss, makes one upstream request and        *)
(* returns what the upstream answer gives.                                   *)
C4_ReadErrorProceedsToFetch ==
  \A p \in Invocations :
    inv[p].read = "error" =>
      /\ inv[p].gets = 1 /\ inv[p].settled # "rejected"
      /\ inv[p].pc = "fetch" => (inv[p].fetches = 0 /\ inv[p].settled = "pending")
      /\ inv[p].pc \in {"body", "put", "done"} => inv[p].fetches = 1
      /\ Settled(p) =>
           inv[p].result = IF HasValue(inv[p].kind, inv[p].response)
                           THEN ValueIn(inv[p].kind, inv[p].response) ELSE Null

C4_Witness ==
  \E p \in Invocations :
    /\ Settled(p) /\ inv[p].read = "error" /\ inv[p].kind = "stars"
    /\ inv[p].fetches = 1 /\ inv[p].result = Num(42, 0)

(* C5: a cache write that throws does not alter the return value: the        *)
(* invocation still returns the value fetched from upstream, not null, and   *)
(* does not throw.                                                           *)
C5_WriteErrorKeepsResult ==
  \A p \in Invocations :
    inv[p].put = "error" =>
      /\ Settled(p) /\ inv[p].settled = "fulfilled"
      /\ HasValue(inv[p].kind, inv[p].response)
      /\ inv[p].result = ValueIn(inv[p].kind, inv[p].response)
      /\ inv[p].result # Null

C5_Witness ==
  \E p, q \in Invocations :
    /\ Settled(p) /\ inv[p].put = "error" /\ inv[p].kind = "stars"
    /\ inv[p].result = Num(42, 0)
    /\ Settled(q) /\ inv[q].put = "error" /\ inv[q].kind = "last-commit"
    /\ inv[q].result = Date2025

(* C6: a 200 answer with a malformed payload (stargazers_count missing or    *)
(* not a number; commit list empty or first record without                   *)
(* commit.committer.date; body that is no JSON) gives null, not a thrown     *)
(* error, and no cache write.                                                *)
C6_MalformedPayloadGivesNull ==
  \A p \in Invocations :
    (Fetched(p) /\ Malformed(inv[p].kind, inv[p].response)) =>
      /\ inv[p].settled # "rejected"
      /\ inv[p].pc \in {"body", "done"}
      /\ inv[p].puts = 0 /\ inv[p].put = "none"
      /\ Settled(p) => (inv[p].settled = "fulfilled" /\ inv[p].result = Null)

C6_Witness ==
  \E p, q \in Invocations :
    /\ Settled(p) /\ inv[p].kind = "stars"
    /\ inv[p].response = Response(TRUE, 200, Obj)
    /\ inv[p].result = Null /\ inv[p].puts = 0
    /\ Settled(q) /\ inv[q].kind = "last-commit"
    /\ inv[q].response = Response(TRUE, 200, Arr(<<>>))
    /\ inv[q].result = Null /\ inv[q].puts = 0

(* The state part of C7: whatever the outcomes of the cache read (hit, miss, error), of the    *)
(* upstream request (ok, non-ok, network error, malformed body) and of the   *)
(* cache write (ok, error), an invocation ends by resolving to a value or to *)
(* null: it is never stuck before its end and its promise never rejects.     *)
C7_Resolved ==
  \A p \in Invocations :
    /\ inv[p].settled # "rejected"
    /\ Settled(p) <=> inv[p].settled = "fulfilled"
    /\ Settled(p) => inv[p].result.t \in {"null", "num", "str"}

(* C7, with the end of the invocation: under every combination of outcomes *)
(* the invocation is never rejected and, its awaits settling, it ends        *)
(* fulfilled.                                                                *)
C7_NeverRejects ==
  /\ []C7_Resolved
  /\ \A p \in Single :
       inv[p].pc = "get" ~> (Settled(p) /\ inv[p].settled = "fulfilled")

C7_Witness ==
  \E p \in Invocations :
    /\ Settled(p) /\ inv[p].settled = "fulfilled"
    /\ inv[p].read = "error" /\ HasStars(inv[p].response)
    /\ inv[p].put = "error" /\ inv[p].result = Num(4, 5)

(* C8: there is no retry: one invocation makes at most one upstream request, *)
(* at most one cache get and at most one cache put, whatever their outcomes. *)
C8_NoRetry ==
  \A p \in Invocations :
    /\ inv[p].gets <= 1 /\ inv[p].fetches <= 1 /\ inv[p].puts <= 1
    /\ Settled(p) => inv[p].gets = 1
    /\ (Settled(p) /\ UpstreamFailed(p)) => inv[p].fetches = 1

C8_Witness ==
  \E p, q \in Invocations :
    /\ Settled(p) /\ inv[p].response.t = "response" /\ inv[p].response.status = 500
    /\ inv[p].gets = 1 /\ inv[p].fetches = 1 /\ inv[p].puts = 0
    /\ Settled(q) /\ inv[q].put = "error"
    /\ inv[q].gets = 1 /\ inv[q].fetches = 1 /\ inv[q].puts = 1

RECURSIVE TotalFetches(_)
\* the upstream requests made by the invocations of S
TotalFetches(S) ==
  IF S = {} THEN 0
  ELSE LET p == CHOOSE p \in S : TRUE
       IN inv[p].fetches + TotalFetches(S \ {p})

\* the strings the star counts received so far are stored as
ReceivedStars ==
  {Str(NumberToString(ValueIn("stars", inv[q].response))) :
     q \in {q \in Invocations : HasStars(inv[q].response)}}

CommitsRequestOfWidgets ==
  <<"h", "t", "t", "p", "s", ":", "/", "/", "a", "p", "i", ".", "g", "i", "t", "h", "u", "b", ".", "c", "o", "m", "/", "r", "e", "p", "o", "s", "/", "a", "c", "m", "e", "/", "w", "i", "d", "g", "e", "t", "s", "/", "c", "o", "m", "m", "i", "t", "s", "?", "p", "e", "r", "_", "p", "a", "g", "e", "=", "1">>

(* C10: getRepoLastCommitDate asks for the commit list limited to one commit *)
(* (per_page=1) and, on a successful answer whose first record carries a     *)
(* committer date, returns that date unchanged: the list                     *)
(* [{commit:{committer:{date:"2025-01-01T00:00:00Z"}}}] gives                *)
(* "2025-01-01T00:00:00Z". (An empty date string counts as no date, C6.)     *)
C10_LastCommitDateOfFirstRecord ==
  \A p \in Invocations :
    inv[p].kind = "last-commit" =>
      /\ Fetched(p) => inv[p].request.url = CommitsRequestOfWidgets
      /\ (Settled(p) /\ HasDate(inv[p].response)) =>
           /\ inv[p].result = inv[p].response.body.items[1].commit.committer.date
           /\ inv[p].response.body = Arr(<<Commit(Date2025)>>) =>
                inv[p].result = Str(<<"2", "0", "2", "5", "-", "0", "1", "-", "0", "1", "T", "0", "0", ":", "0", "0", ":", "0", "0", "Z">>)

C10_Witness ==
  \E p \in Invocations :
    /\ Settled(p) /\ inv[p].kind = "last-commit"
    /\ inv[p].response = Response(TRUE, 200, Arr(<<Commit(Date2025)>>))
    /\ inv[p].request.url = CommitsRequestOfWidgets
    /\ inv[p].result = Str(<<"2", "0", "2", "5", "-", "0", "1", "-", "0", "1", "T", "0", "0", ":", "0", "0", ":", "0", "0", "Z">>)

-----------------------------------------------------------------------------
\* the TTL each variant is written to use
ConfiguredTtl == IF deployment = "current" THEN 300 ELSE 3600

(* C11: every cache write carries the TTL of the deployed variant (300 for   *)
(* the current functions, 3600 for the earlier getRepoStars variants), and   *)
(* an invocation that finds its key absent, never written or expired, goes   *)
(* on to the upstream request without a result, makes exactly one request    *)
(* and returns what that request gave, never an earlier entry.               *)
C11_TtlAndRefetch ==
  [][\A p \in Invocations :
       /\ (inv[p].pc = "put" /\ inv'[p].put = "ok") =>
            /\ inv[p].cacheKey \in DOMAIN cache'
            /\ cache'[inv[p].cacheKey].expirationTtl = ConfiguredTtl
       /\ (inv[p].pc = "get" /\ inv'[p].pc # "get"
           /\ inv[p].cacheKey \notin DOMAIN cache) =>
            /\ inv'[p].pc = "fetch" /\ inv'[p].settled = "pending"
            /\ inv'[p].result = Undefined /\ inv'[p].fetches = 0
       /\ (inv[p].pc = "fetch" /\ inv'[p].pc # "fetch") =>
            /\ inv'[p].fetches = 1
            /\ inv'[p].response \in DeployAnswers(inv[p].kind)
       /\ (inv'[p].pc = "done" /\ inv'[p].read # "hit") =>
            /\ inv'[p].fetches = 1
            /\ inv'[p].result = IF HasValue(inv'[p].kind, inv'[p].response)
                                THEN ValueIn(inv'[p].kind, inv'[p].response)
                                ELSE Null
  ]_vars

\* an entry "7" was served, then expired, and the next invocation fetched 42
\* and wrote it with the TTL of the instrumented variant
C11_Witness ==
  /\ deployment = "instrumented"
  /\ Settled(1) /\ inv[1].read = "hit" /\ inv[1].result = Num(7, 0)
  /\ Settled(2) /\ inv[2].read = "miss" /\ inv[2].fetches = 1
  /\ inv[2].result = Num(42, 0) /\ inv[2].put = "ok"
  /\ StarsKeyOfWidgets \in DOMAIN cache
  /\ cache[StarsKeyOfWidgets] = [value |-> Str(<<"4", "2">>), expirationTtl |-> ExpirationTtlStarsCache]

-----------------------------------------------------------------------------
\* the key of the card of a repository
KeyOfRef(ref) == ref.owner \o <<"/">> \o ref.repo

\* the lookups of one kind made for the repository of a card
LookupsFor(kind, key) ==
  {p \in Invocations : inv[p].kind = kind /\ KeyOfRef(inv[p].ref) = key}

\* the values a lookup can bring for a repository: those upstream reports
\* for it and the one the store held for it
OwnValues(kind, key) ==
  IF key = KeyOfRef(Widgets)
  THEN (IF kind = "stars" THEN {Num(42, 0), Num(7, 0)} ELSE {Date2025, Date2024})
  ELSE (IF kind = "stars" THEN {Num(9, 0)} ELSE {Date2024})

(* C12: every card ProjectsList renders shows the star count, and in the     *)
(* fetch-then-sort variant the last-commit date, returned by the lookup made *)
(* for the card's own {owner, repo}, whatever order the sort gives; a null   *)
(* result shows as the placeholder, resp. the project's static date.         *)
C12_CardsShowOwnResults ==
  page.pc = "rendered" =>
    /\ Len(page.cards) = Len(page.projects)
    /\ \A i \in 1..Len(page.cards) :
         LET card == page.cards[i]
             own == {j \in 1..Len(page.projects) : CardKey(page.projects[j]) = card.key}
         IN /\ Cardinality(own) = 1
            /\ \A j \in own :
                 /\ card.title = page.projects[j].title
                 /\ Cardinality(LookupsFor("stars", card.key)) = 1
                 /\ \A p \in LookupsFor("stars", card.key) :
                      /\ card.stars = IF inv[p].result = Null THEN Str(<<EmDash>>)
                                      ELSE inv[p].result
                      /\ inv[p].result \in {Null} \cup OwnValues("stars", card.key)
                 /\ page.variant = "fetch-then-sort" =>
                      /\ Cardinality(LookupsFor("last-commit", card.key)) = 1
                      /\ \A p \in LookupsFor("last-commit", card.key) :
                           /\ card.lastUpdated = IF inv[p].result = Null
                                                 THEN page.projects[j].date
                                                 ELSE inv[p].result
                           /\ inv[p].result \in {Null} \cup OwnValues("last-commit", card.key)

\* the sort has swapped the two projects and each card shows its own values
C12_Witness ==
  /\ page.pc = "rendered" /\ page.variant = "fetch-then-sort"
  /\ page.projects = <<WidgetsProject, GearsProject>>
  /\ Len(page.cards) = 2
  /\ page.cards[1].key = <<"a", "c", "m", "e", "/", "g", "e", "a", "r", "s">> /\ page.cards[1].stars = Num(9, 0)
  /\ page.cards[1].lastUpdated = Str(<<"2", "0", "2", "5", "-", "0", "5", "-", "0", "6">>)
  /\ page.cards[2].key = <<"a", "c", "m", "e", "/", "w", "i", "d", "g", "e", "t", "s">> /\ page.cards[2].stars = Num(42, 0)
  /\ page.cards[2].lastUpdated = Date2025

-----------------------------------------------------------------------------
(* C13: in one render ProjectsList first calls every lookup (stars for each  *)
(* project and, fetch-then-sort, last-commit for each project), each up to   *)
(* its first await and before any result is awaited; the list is rendered    *)
(* only in a step taken when every lookup has completed. (That the lookups   *)
(* may complete in any order is shown by C13_Witness.)                       *)
C13_StartAllThenJoin ==
  [][/\ page.pc = "start" => \A p \in DOMAIN inv : inv[p].pc = "idle"
     /\ (page.pc = "start" /\ page'.pc # "start") =>
          LET n == Len(page.projects)
          IN /\ page'.pc = "awaiting"
             /\ DOMAIN inv' = LookupsOf(page.variant, page.projects)
             /\ \A p \in DOMAIN inv' :
                  /\ inv'[p].pc = "get" /\ inv'[p].gets = 0
                  /\ inv'[p].settled = "pending"
                  /\ inv'[p].kind = IF p <= n THEN "stars" ELSE "last-commit"
             /\ \A i \in 1..n :
                  \E p \in DOMAIN inv' :
                    inv'[p].kind = "stars" /\ inv'[p].ref = RefOf(page.projects[i])
             /\ page.variant = "fetch-then-sort" =>
                  \A i \in 1..n :
                    \E p \in DOMAIN inv' :
                      /\ inv'[p].kind = "last-commit"
                      /\ inv'[p].ref = RefOf(page.projects[i])
     /\ page.pc # "rendered" => page.cards = <<>>
     /\ (page.pc # "rendered" /\ page'.pc = "rendered") =>
          /\ page.pc = "awaiting"
          /\ \A p \in DOMAIN inv : inv[p].pc = "done" /\ inv[p].settled = "fulfilled"
          /\ Len(page'.cards) = Len(page.projects)
  ]_vars

\* the lookup called last has completed, and so has the second, while the
\* first and the third have not got their cache read back
C13_Witness ==
  /\ page.pc = "awaiting" /\ page.variant = "fetch-then-sort"
  /\ DOMAIN inv = 1..4
  /\ inv[4].pc = "done" /\ inv[4].fetches = 1 /\ inv[4].put = "ok"
  /\ inv[2].pc = "done"
  /\ inv[1].pc = "get" /\ inv[3].pc = "get"

-----------------------------------------------------------------------------
\* every lookup of the render has failed: its cache read threw and its
\* upstream request failed
AllLookupsFailed ==
  \A p \in DOMAIN inv :
    Settled(p) /\ inv[p].read = "error" /\ UpstreamFailed(p)

\* the page shows every project once, with the placeholder as star count
\* and, where a date is shown, the project's static date
RenderedWithoutMetadata ==
  /\ page.pc = "rendered"
  /\ Len(page.cards) = Len(page.projects)
  /\ \A j \in 1..Len(page.projects) :
       \E i \in 1..Len(page.cards) :
         /\ page.cards[i].key = CardKey(page.projects[j])
         /\ page.cards[i].title = page.projects[j].title
         /\ page.cards[i].stars = Str(<<"emdash">>)
         /\ page.variant = "fetch-then-sort" =>
              page.cards[i].lastUpdated = page.projects[j].date

RECURSIVE AwaitsLeft(_)
\* an upper bound of the awaits the lookups of S still have to get through
AwaitsLeft(S) ==
  IF S = {} THEN 0
  ELSE LET p == CHOOSE p \in S : TRUE
           left == CASE inv[p].pc = "idle" -> 5
                     [] inv[p].pc = "get" -> 4
                     [] inv[p].pc = "fetch" -> 3
                     [] inv[p].pc = "body" -> 2
                     [] inv[p].pc = "put" -> 1
                     [] OTHER -> 0
       IN left + AwaitsLeft(S \ {p})

\* an upper bound of the steps left before the page is rendered
StepsLeft ==
  AwaitsLeft(DOMAIN inv) +
    (CASE page.pc = "start" -> 2 [] page.pc = "awaiting" -> 1 [] OTHER -> 0)

\* ProjectsList has not failed, no lookup has rejected, every lookup that
\* has ended gave null without a cache write, and once all have ended the
\* joined promise is fulfilled, so that the render can run
OutageSafe ==
  /\ page.pc # "failed"
  /\ \A p \in DOMAIN inv :
       /\ inv[p].settled # "rejected"
       /\ Settled(p) => (inv[p].result = Null /\ inv[p].puts = 0)
  /\ (\A p \in DOMAIN inv : Settled(p)) =>
       (\A p \in DOMAIN inv : inv[p].settled = "fulfilled")
  /\ page.pc = "rendered" => (AllLookupsFailed /\ RenderedWithoutMetadata)

(* C14: when the cache is unavailable and upstream fails for every          *)
(* repository, ProjectsList never fails and nothing blocks its render:      *)
(* every lookup ends with null, every step brings the render nearer (there  *)
(* is no retry to loop in), the joined promise is fulfilled once all        *)
(* lookups have ended, and the rendered page shows every project with the   *)
(* placeholder for stars and the project's static date as last-updated date. *)
C14_OutageStillRenders ==
  /\ []OutageSafe
  /\ [][StepsLeft' < StepsLeft]_vars

C14_Witness ==
  /\ AllLookupsFailed /\ RenderedWithoutMetadata
  /\ page.variant = "fetch-then-sort"
  /\ page.projects = <<WidgetsProject, GearsProject>>
  /\ StarsKeyOfWidgets \in DOMAIN cache
  /\ page.cards = <<[key |-> <<"a", "c", "m", "e", "/", "g", "e", "a", "r", "s">>, title |-> Str(<<"G", "e", "a", "r", "s">>),
                     lastUpdated |-> Str(<<"2", "0", "2", "5", "-", "0", "5", "-", "0", "6">>), stars |-> Str(<<"emdash">>)],
                    [key |-> <<"a", "c", "m", "e", "/", "w", "i", "d", "g", "e", "t", "s">>, title |-> Str(<<"W", "i", "d", "g", "e", "t", "s">>),
                     lastUpdated |-> Str(<<"2", "0", "2", "5", "-", "0", "4", "-", "2", "4">>), stars |-> Str(<<"emdash">>)]>>

-----------------------------------------------------------------------------
\* "stars:acme/gears", an entry of a repository no invocation is made for
StarsKeyOfGears == <<"s", "t", "a", "r", "s", ":", "a", "c", "m", "e", "/", "g", "e", "a", "r", "s">>

(* C15: the store changes only by a put of an invocation, which sets the    *)
(* entry of that invocation's own key, "stars:{owner}/{repo}" for           *)
(* getRepoStars and "last-commit:{owner}/{repo}" for getRepoLastCommitDate, *)
(* and leaves every other entry as it was, or by the store expiring an      *)
(* entry; an invocation reads the entry of its own key only, and no step of *)
(* an invocation removes an entry.                                          *)
C15_OwnKeyOnly ==
  [][/\ cache' # cache =>
          \/ \E p \in Invocations :
               LET key == KeyOfWidgets(inv[p].kind)
               IN /\ inv[p].pc = "put" /\ inv'[p].put = "ok"
                  /\ inv[p].ref = Widgets
                  /\ DOMAIN cache' = DOMAIN cache \cup {key}
                  /\ cache'[key].value = CacheValue(inv[p].kind, inv[p].value)
                  /\ \A k \in DOMAIN cache \ {key} : cache'[k] = cache[k]
          \/ /\ inv' = inv
             /\ \E k \in DOMAIN cache :
                  /\ DOMAIN cache' = DOMAIN cache \ {k}
                  /\ \A x \in DOMAIN cache' : cache'[x] = cache[x]
     /\ inv' # inv => \A k \in DOMAIN cache : k \in DOMAIN cache'
     /\ \A p \in Invocations :
          (inv[p].pc = "get" /\ inv'[p].pc # "get" /\ inv'[p].read # "error") =>
            /\ inv[p].ref = Widgets
            /\ inv'[p].maybeCached =
                 IF KeyOfWidgets(inv[p].kind) \in DOMAIN cache
                 THEN cache[KeyOfWidgets(inv[p].kind)].value ELSE Null
  ]_vars

\* both functions have written their entry of acme/widgets, and the entry
\* of acme/gears is as it was
C15_Witness ==
  /\ inv[1].kind = "stars" /\ inv[1].put = "ok" /\ inv[1].result = Num(42, 0)
  /\ inv[2].kind = "last-commit" /\ inv[2].put = "ok" /\ inv[2].result = Date2025
  /\ DOMAIN cache = {StarsKeyOfWidgets, LastCommitKeyOfWidgets, StarsKeyOfGears}
  /\ cache[StarsKeyOfWidgets].value = Str(<<"4", "2">>)
  /\ cache[LastCommitKeyOfWidgets].value = Date2025
  /\ cache[StarsKeyOfGears].value = Str(<<"9">>)

-----------------------------------------------------------------------------
\* the entry of "stars:acme/widgets" is present and Number.parseInt makes no
\* number of it
CorruptStarsEntry(store) ==
  /\ StarsKeyOfWidgets \in DOMAIN store
  /\ ParseInt(store[StarsKeyOfWidgets].value.s) = NaN

(* C16: a present cached star value that does not parse to a finite integer  *)
(* (Number.parseInt gives NaN) is treated as a miss: getRepoStars goes on to *)
(* the upstream request without a result, makes that one request, and a put  *)
(* after a valid answer replaces the corrupt entry by the stringified count. *)
C16_CorruptEntryIsMiss ==
  [][\A p \in Invocations :
       /\ (inv[p].pc = "get" /\ inv'[p].pc # "get" /\ inv'[p].read # "error"
           /\ CorruptStarsEntry(cache)) =>
            /\ inv'[p].read = "miss" /\ inv'[p].pc = "fetch"
            /\ inv'[p].settled = "pending" /\ inv'[p].result = Undefined
       /\ (inv[p].pc = "fetch" /\ inv'[p].pc # "fetch") =>
            /\ inv'[p].fetches = 1
            /\ inv'[p].request.url = StarsUrl(Widgets)
       /\ (inv[p].pc = "body" /\ inv'[p].pc # "body" /\ HasStars(inv[p].response)) =>
            inv'[p].pc = "put"
       /\ (inv[p].pc = "put" /\ inv'[p].put = "ok" /\ CorruptStarsEntry(cache)) =>
            /\ HasStars(inv[p].response)
            /\ cache'[StarsKeyOfWidgets].value =
                 Str(NumberToString(ValueIn("stars", inv[p].response)))
            /\ ~CorruptStarsEntry(cache')
            /\ inv'[p].result = ValueIn("stars", inv[p].response)
  ]_vars

\* the store held "x": one invocation has read it and is about to fetch,
\* another missed, fetched 42 and has replaced the entry by "42"
C16_Witness ==
  \E p, q \in Invocations :
    /\ inv[q].pc = "fetch" /\ inv[q].read = "miss"
    /\ inv[q].maybeCached = Str(<<"x">>)
    /\ Settled(p) /\ inv[p].read = "miss" /\ inv[p].fetches = 1
    /\ inv[p].response = Response(TRUE, 200, [t |-> "obj", stargazers_count |-> Num(42, 0)])
    /\ inv[p].put = "ok" /\ inv[p].result = Num(42, 0)
    /\ cache[StarsKeyOfWidgets].value = Str(<<"4", "2">>)

-----------------------------------------------------------------------------
(* C17: the count of a cache hit against the string it was read from *)

\* invocation p of getRepoStars has returned from its cache read with a count
StarsHit(p) ==
  /\ inv[p].kind = "stars" /\ inv[p].read = "hit"
  /\ inv[p].settled = "fulfilled"

\* s is exactly String(n) of an integer n
IsStringOfInteger(s, n) ==
  /\ n.t = "num" /\ n.tenths = 0
  /\ s.t = "str" /\ s.s = NumberToString(n)

\* C17: on a cache hit getRepoStars returns only a count n whose cached
\* string is exactly the stringified integer n; a cached string that is not
\* entirely an integer is never returned as a count
C17_HitIsExactInteger ==
  \A p \in DOMAIN inv :
    StarsHit(p) => IsStringOfInteger(inv[p].maybeCached, inv[p].result)

-----------------------------------------------------------------------------
(* C18: a value written by one invocation and read by the next *)

\* invocation p fetched a value from upstream, wrote it successfully and
\* returned it, and its entry has not expired
WroteAndKept(p) ==
  /\ Settled(p) /\ inv[p].fetches = 1 /\ inv[p].put = "ok"
  /\ inv[p].settled = "fulfilled"
  /\ inv[p].cacheKey \in DOMAIN cache

\* invocation q takes its cache-read step and the read does not throw
ReadsNow(q) ==
  /\ inv[q].pc = "get" /\ inv'[q].pc # "get"
  /\ inv'[q].read # "error"

\* C18: after an invocation that fetched a value v and wrote it successfully,
\* a second invocation for the same owner/repo before expiry returns exactly
\* v with no upstream request, for every numeric star count (0 included) and
\* every commit date string
C18_WriteThenRead ==
  [][\A p, q \in DOMAIN inv :
       (p # q /\ WroteAndKept(p) /\ ReadsNow(q)
        /\ inv[q].cacheKey = inv[p].cacheKey) =>
         /\ inv'[q].pc = "done" /\ inv'[q].settled = "fulfilled"
         /\ inv'[q].result = inv[p].result
         /\ inv'[q].fetches = 0
  ]_vars

-----------------------------------------------------------------------------
(* C19: where the entries of the store come from *)

\* the store is empty when the first invocation is called
InitFresh ==
  /\ ComponentsAbsent
  /\ page = NoPage
  /\ deployment = "current"
  /\ cache = EmptyCache
  /\ token = SomeToken
  /\ inv = [p \in Calls |-> Idle]

\* two invocations, of either function, for either repository
NextFresh ==
  \/ \E p \in DOMAIN inv, kind \in Kinds, ref \in Repos : Call(p, kind, ref)
  \/ \E p \in DOMAIN inv : KvGet(p)
  \/ \E p \in DOMAIN inv : Fetch(p)
  \/ \E p \in DOMAIN inv : Body(p)
  \/ \E p \in DOMAIN inv : KvPut(p)
  \/ \E key \in Keys : Expire(key)

SpecFresh == InitFresh /\ [][NextFresh]_vars

\* the answer invocation p holds is a successful one to the request for
\* p's own repository and carries a valid value
ValidAnswerForOwnKey(p) ==
  /\ inv[p].cacheKey = CacheKey(inv[p].kind, inv[p].ref)
  /\ inv[p].fetches = 1
  /\ inv[p].request.url = RequestUrl(inv[p].kind, Url(inv[p].kind, inv[p].ref))
  /\ HasValue(inv[p].kind, inv[p].response)
  /\ ValueIn(inv[p].kind, inv[p].response) \in
       (IF inv[p].kind = "stars" THEN UpstreamStars(inv[p].ref)
        ELSE UpstreamDates(inv[p].ref))

\* the string the store holds for the value of a valid answer
StoredForm(kind, r) ==
  IF kind = "stars" THEN Str(NumberToString(ValueIn(kind, r))) ELSE ValueIn(kind, r)

\* entry k of the store was written by an invocation holding a valid answer
WrittenFromValidAnswer(store, k) ==
  \E p \in DOMAIN inv :
    /\ inv[p].cacheKey = k /\ inv[p].put = "ok"
    /\ ValidAnswerForOwnKey(p)
    /\ store[k].value = StoredForm(inv[p].kind, inv[p].response)

\* a step changes the store only by expiring entries or by the write of one
\* invocation that has just received a valid answer, under its own key
StoreChangesOnlyByValidWrite ==
  cache' # cache =>
    \/ DOMAIN cache' \subseteq DOMAIN cache /\ DOMAIN cache' # DOMAIN cache
       /\ \A k \in DOMAIN cache' : cache'[k] = cache[k]
    \/ \E p \in DOMAIN inv :
         /\ inv[p].pc = "put" /\ inv'[p].put = "ok"
         /\ ValidAnswerForOwnKey(p)
         /\ cache' = KvPutValue(cache, inv[p].cacheKey,
                                StoredForm(inv[p].kind, inv[p].response), ExpirationTtl)

\* C19: starting from an empty store, every entry was written by an
\* invocation that had just received a successful upstream answer with a
\* valid value for that same key; null, error bodies and the values of other
\* repositories are never stored
C19_CacheProvenance ==
  /\ [](\A k \in DOMAIN cache : WrittenFromValidAnswer(cache, k))
  /\ [][StoreChangesOnlyByValidWrite]_vars

\* a count of gears and a date of widgets are stored, each under its key
C19_Witness ==
  /\ DOMAIN cache = {CacheKey("stars", Gears), CacheKey("last-commit", Widgets)}
  /\ cache[CacheKey("stars", Gears)].value = Str(<<"9">>)
  /\ cache[CacheKey("last-commit", Widgets)].value = Date2025
  /\ \A p \in DOMAIN inv : Settled(p) /\ inv[p].put = "ok"

-----------------------------------------------------------------------------
(* C20: the cache keys of distinct lookups. The key of a lookup is built    *)
(* before its first await and never changes; SpecKeys follows calls up to   *)
(* that point, for arbitrary owner and repo strings and for the project     *)
(* list of projects.data.ts.                                                *)

MaxNameLen == 2

\* the characters of the owner and repo strings followed: a letter and the
\* separator of the key
NameChars == {"a", "/"}

\* the non-empty owner and repo strings of at most MaxNameLen characters
Names == UNION {[1..n -> NameChars] : n \in 1..MaxNameLen}

\* the arguments getRepoStars and getRepoLastCommitDate may be called with
AnyRefs == {[owner |-> o, repo |-> r] : o \in Names, r \in Names}

Oscabriel == <<"o", "s", "c", "a", "b", "r", "i", "e", "l">>

\* the `projects` of projects.data.ts, in file order
projects ==
  <<ProjectItem(<<"B", "e", "t", "t", "e", "r", " ", "C", "l", "o", "u", "d">>, <<"2", "0", "2", "5", "-", "0", "4", "-", "2", "4">>,
                [owner |-> Oscabriel, repo |-> <<"b", "e", "t", "t", "e", "r", "-", "c", "l", "o", "u", "d">>]),
    ProjectItem(<<"T", "u", "r", "b", "o", " ", "C", "l", "o", "u", "d">>, <<"2", "0", "2", "5", "-", "0", "5", "-", "0", "6">>,
                [owner |-> Oscabriel, repo |-> <<"t", "u", "r", "b", "o", "-", "c", "l", "o", "u", "d">>]),
    ProjectItem(<<"R", "e", "d", "w", "o", "o", "d", "S", "D", "K", " ", "G", "u", "e", "s", "t", "b", "o", "o", "k">>, <<"2", "0", "2", "5", "-", "0", "5", "-", "3", "0">>,
                [owner |-> Oscabriel, repo |-> <<"r", "w", "s", "d", "k", "-", "g", "u", "e", "s", "t", "b", "o", "o", "k">>]),
    ProjectItem(<<"P", "o", "r", "t", "f", "o", "l", "i", "o", " ", "S", "i", "t", "e">>, <<"2", "0", "2", "5", "-", "0", "7", "-", "1", "3">>,
                [owner |-> Oscabriel, repo |-> <<"o", "s", "c", "a", "r", "g", "a", "b", "r", "i", "e", "l", "-", "d", "e", "v">>])>>

\* either two direct calls are about to be made, or ProjectsList is about
\* to be called with `projects`
InitKeys ==
  /\ ComponentsAbsent
  /\ page \in {NoPage} \cup {PageAt(v, projects) : v \in Variants}
  /\ deployment = IF page.variant = "sort-then-fetch" THEN "stars-cache"
                  ELSE "current"
  /\ cache = EmptyCache
  /\ token = SomeToken
  /\ inv = IF page = NoPage THEN [p \in Calls |-> Idle]
           ELSE [p \in LookupsOf(page.variant, page.projects) |-> Idle]

NextKeys ==
  \/ \E p \in DOMAIN inv, kind \in Kinds, ref \in AnyRefs :
       page = NoPage /\ Call(p, kind, ref)
  \/ ProjectsListStart
  \/ ProjectsListSortThenStart

SpecKeys == InitKeys /\ [][NextKeys]_vars

\* invocation p has built its key
HasKey(p) == inv[p].pc # "idle"

\* the (kind, owner, repo) triple invocation p was called with
Triple(p) == <<inv[p].kind, inv[p].ref.owner, inv[p].ref.repo>>

NoSlash(s) == \A i \in 1..Len(s) : s[i] # "/"

\* within one render of ProjectsList no two lookups share a key
RenderKeysDistinct ==
  page.pc = "awaiting" =>
    \A p, q \in DOMAIN inv : p # q => inv[p].cacheKey # inv[q].cacheKey

\* C20 as stated: for non-empty owner and repo strings two different
\* (kind, owner, repo) triples never map to the same key, and within a
\* single ProjectsList render no two lookups share a key
C20_DistinctKeys ==
  /\ \A p, q \in DOMAIN inv :
       (HasKey(p) /\ HasKey(q) /\ Triple(p) # Triple(q)) =>
         inv[p].cacheKey # inv[q].cacheKey
  /\ RenderKeysDistinct

\* C20, amended: for non-empty owner and repo strings with no "/" in the
\* owner, two different (kind, owner, repo) triples never map to the same
\* key; for any owner and repo strings two lookups with the same key are of
\* the same kind and request the same URL; and within a single ProjectsList
\* render no two lookups share a key
C20_DistinctKeysOfNames ==
  /\ \A p, q \in DOMAIN inv :
       (HasKey(p) /\ HasKey(q) /\ Triple(p) # Triple(q)
        /\ NoSlash(inv[p].ref.owner) /\ NoSlash(inv[q].ref.owner)) =>
         inv[p].cacheKey # inv[q].cacheKey
  /\ \A p, q \in DOMAIN inv :
       (HasKey(p) /\ HasKey(q) /\ inv[p].cacheKey = inv[q].cacheKey) =>
         /\ inv[p].kind = inv[q].kind
         /\ inv[p].url = inv[q].url
  /\ RenderKeysDistinct

\* two calls of getRepoStars whose owner and repo strings concatenate alike
\* have built different keys
C20_Witness ==
  /\ page = NoPage
  /\ HasKey(1) /\ HasKey(2)
  /\ inv[1].kind = "stars" /\ inv[2].kind = "stars"
  /\ inv[1].ref = [owner |-> <<"a">>, repo |-> <<"a", "a">>]
  /\ inv[2].ref = [owner |-> <<"a", "a">>, repo |-> <<"a">>]
  /\ inv[1].cacheKey # inv[2].cacheKey

-----------------------------------------------------------------------------
(* C21: the two lookups of one repository *)

\* p and q are the star and the last-commit lookup of one repository
LookupsOfOneRepository(p, q) ==
  /\ inv[p].kind # "none" /\ inv[q].kind # "none"
  /\ inv[p].kind # inv[q].kind
  /\ inv[p].ref = inv[q].ref

\* what a settled lookup returns, by what it saw itself: the cached value it
\* read, else the value of its own upstream answer, else null
OwnResult(q) ==
  IF inv[q].read = "hit"
  THEN (IF inv[q].kind = "stars" THEN ParseInt(inv[q].maybeCached.s)
        ELSE inv[q].maybeCached)
  ELSE IF HasValue(inv[q].kind, inv[q].response)
  THEN ValueIn(inv[q].kind, inv[q].response)
  ELSE Null

\* a step of lookup p, failed or not, leaves lookup q and q's entry alone
StepLeavesOtherAlone ==
  \A p, q \in DOMAIN inv :
    (LookupsOfOneRepository(p, q) /\ inv'[p] # inv[p]) =>
      /\ inv'[q] = inv[q]
      /\ KvGetValue(cache', inv[q].cacheKey) = KvGetValue(cache, inv[q].cacheKey)
      /\ (inv[q].cacheKey \in DOMAIN cache) = (inv[q].cacheKey \in DOMAIN cache')

\* C21: star count and last-commit date of the same repository degrade
\* independently: a failure in one of the two lookups never changes the
\* value returned by the other, nor the other lookup's cache entry
C21_IndependentLookups ==
  /\ [](\A q \in DOMAIN inv : Settled(q) =>
          /\ inv[q].settled = "fulfilled"
          /\ inv[q].result = OwnResult(q))
  /\ [][StepLeavesOtherAlone]_vars

\* rendered: the star lookup of acme/widgets failed upstream, its last-commit
\* lookup fetched and stored the date, and the card shows the date next to
\* the placeholder
C21_Witness ==
  /\ page.pc = "rendered" /\ page.variant = "fetch-then-sort"
  /\ \E p, q \in DOMAIN inv :
       /\ LookupsOfOneRepository(p, q)
       /\ inv[p].kind = "stars" /\ inv[p].ref = Widgets
       /\ UpstreamFailed(p) /\ inv[p].result = Null
       /\ inv[q].put = "ok" /\ inv[q].result = Date2025
       /\ inv[p].cacheKey \notin DOMAIN cache
       /\ cache[inv[q].cacheKey].value = Date2025
  /\ \E i \in DOMAIN page.cards :
       /\ page.cards[i].stars = OrPlaceholder(Null)
       /\ page.cards[i].lastUpdated = Date2025

-----------------------------------------------------------------------------
(* C22: the request headers and the token. env.GITHUB_TOKEN is read when a  *)
(* function is called; SpecToken lets the secret be set or removed between  *)
(* two calls, so invocations with and without a token run side by side.     *)

\* the secret GITHUB_TOKEN is set or removed
SetToken(tok) ==
  /\ token # tok
  /\ token' = tok
  /\ UNCHANGED <<components, page, deployment, cache, inv>>

InitToken ==
  /\ ComponentsAbsent
  /\ page = NoPage
  /\ deployment = "current"
  /\ cache \in {EmptyCache,
                KvPutValue(EmptyCache, CacheKey("stars", Widgets), Str(<<"7">>), ExpirationTtl),
                KvPutValue(EmptyCache, CacheKey("last-commit", Widgets), Date2024, ExpirationTtl)}
  /\ token \in Tokens
  /\ inv = [p \in Calls |-> Idle]

NextToken ==
  \/ \E tok \in Tokens : SetToken(tok)
  \/ \E p \in DOMAIN inv, kind \in Kinds, ref \in Called : Call(p, kind, ref)
  \/ \E p \in DOMAIN inv : KvGet(p)
  \/ \E p \in DOMAIN inv : Fetch(p)
  \/ \E p \in DOMAIN inv : Body(p)
  \/ \E p \in DOMAIN inv : KvPut(p)

SpecToken == InitToken /\ [][NextToken]_vars

HasAuthorization(headers) == "Authorization" \in DOMAIN headers

\* the headers built by the call that is made in this step
CallBuildsHeaders(p) ==
  (inv[p].pc = "idle" /\ inv'[p].pc # "idle") =>
    /\ inv'[p].headers.UserAgent = UserAgent
    /\ HasAuthorization(inv'[p].headers) <=> Truthy(token)
    /\ HasAuthorization(inv'[p].headers) =>
         inv'[p].headers.Authorization = Str(<<"B", "e", "a", "r", "e", "r", " ">> \o token.s)

\* the request made in this step carries the headers the call built
FetchSendsHeaders(p) ==
  (inv[p].pc = "fetch" /\ inv'[p].pc # "fetch") =>
    /\ inv'[p].request.headers = inv[p].headers
    /\ inv'[p].request.headers.UserAgent = UserAgent

\* p and q are calls of the same function for the same repository, at the
\* same point of the code, and have seen the same outcomes so far
SameSoFar(p, q) ==
  /\ inv[p].kind # "none"
  /\ inv[p].kind = inv[q].kind /\ inv[p].ref = inv[q].ref
  /\ inv[p].pc = inv[q].pc
  /\ inv[p].read = inv[q].read /\ inv[p].maybeCached = inv[q].maybeCached
  /\ inv[p].response = inv[q].response
  /\ inv[p].put = inv[q].put

\* the URL of the request invocation p has made, if any
RequestedUrl(p) == IF inv[p].fetches = 0 THEN <<>> ELSE inv[p].request.url

\* all of invocation p's behaviour but its headers
Behaviour(p) ==
  <<inv[p].url, inv[p].cacheKey, RequestedUrl(p), inv[p].value, inv[p].result,
    inv[p].settled, inv[p].gets, inv[p].fetches, inv[p].puts>>

\* C22: every upstream request carries the User-Agent header, and carries an
\* Authorization bearer header if and only if a token is configured; the
\* presence or absence of the token changes nothing else in the call
C22_HeadersAndToken ==
  /\ [][\A p \in DOMAIN inv : CallBuildsHeaders(p) /\ FetchSendsHeaders(p)]_vars
  /\ [](\A p, q \in DOMAIN inv : SameSoFar(p, q) => Behaviour(p) = Behaviour(q))

\* two calls of getRepoStars, one with and one without the token, have both
\* fetched 42, stored it and returned it
C22_Witness ==
  /\ Settled(1) /\ Settled(2) /\ SameSoFar(1, 2)
  /\ inv[1].kind = "stars" /\ inv[1].fetches = 1 /\ inv[2].fetches = 1
  /\ HasAuthorization(inv[1].request.headers) # HasAuthorization(inv[2].request.headers)
  /\ inv[1].put = "ok" /\ inv[1].result = Num(42, 0) /\ inv[2].result = Num(42, 0)

-----------------------------------------------------------------------------
(* C23: the order of the rendered list *)

\* the effective date of project k of the list: the result of its
\* last-commit lookup when the render made one and it is known, else the
\* static date
EffectiveDateOfProject(k) ==
  LET n == Len(page.projects)
  IN IF page.variant = "fetch-then-sort" /\ inv[n + k].result.t = "str"
     THEN inv[n + k].result
     ELSE page.projects[k].date

\* the arrangements f of the project list that the cards show: card i is
\* the card of project f[i]
Arrangements ==
  {f \in Orders(Len(page.projects)) :
     \A i \in 1..Len(page.projects) :
       /\ page.cards[i].key = CardKey(page.projects[f[i]])
       /\ page.cards[i].title = page.projects[f[i]].title}

\* C23: ProjectsList renders the projects in descending order of effective
\* date (the fetched last-commit date when known, the static date
\* otherwise), and the rendered list is a permutation of the project list,
\* whatever subset of lookups returned unknown
C23_SortedByEffectiveDate ==
  page.pc = "rendered" =>
    /\ Len(page.cards) = Len(page.projects)
    /\ Arrangements # {}
    /\ \A f \in Arrangements :
         \A i, j \in 1..Len(page.cards) :
           i < j => GetTime(EffectiveDateOfProject(f[i])).whole
                      >= GetTime(EffectiveDateOfProject(f[j])).whole

\* rendered with one date known and one unknown, in an order that differs
\* from the order by static date: acme/widgets (static 2025-04-24, commit
\* date unknown) comes before acme/gears (static 2025-05-06, last commit
\* 2024-06-30)
C23_Witness ==
  /\ page.pc = "rendered" /\ page.variant = "fetch-then-sort"
  /\ page.projects = <<GearsProject, WidgetsProject>>
  /\ inv[3].result = Date2024 /\ inv[4].result = Null
  /\ page.cards[1].key = CardKey(WidgetsProject)
  /\ page.cards[2].key = CardKey(GearsProject)

-----------------------------------------------------------------------------
(* C24: the three variants of getRepoStars, step by step *)

\* one call of getRepoStars under any of the three variants; the store is
\* empty or holds, for the repository, an empty, a numeric, a partly numeric
\* or a non-numeric string
InitVariants ==
  /\ ComponentsAbsent
  /\ page = NoPage
  /\ deployment \in Deployments
  /\ cache \in {EmptyCache} \cup
              {KvPutValue(EmptyCache, StarsCacheKey(Widgets), v, Ttl(deployment)) :
                 v \in InitValues("stars", Widgets)}
  /\ token \in Tokens
  /\ inv = [p \in Single |-> Idle]

NextVariants ==
  \/ \E p \in DOMAIN inv : Call(p, "stars", Widgets)
  \/ \E p \in DOMAIN inv : KvGet(p)
  \/ \E p \in DOMAIN inv : Fetch(p)
  \/ \E p \in DOMAIN inv : Body(p)
  \/ \E p \in DOMAIN inv : KvPut(p)

SpecVariants == InitVariants /\ [][NextVariants]_vars

\* the step invocation p has taken is the step s
Took(p, s) ==
  /\ inv'[p].pc = s.next
  /\ inv'[p].result = s.result
  /\ inv'[p].settled = s.settled

\* the instrumented variant, the plain variant with STARS_CACHE and the
\* current one would all have taken the step invocation p takes
SameStepInAllVariants(p) ==
  /\ (inv[p].pc = "get" /\ inv'[p].pc # "get") =>
       /\ inv'[p].gets = 1
       /\ Took(p, InstrumentedOnCacheRead(inv'[p].maybeCached))
       /\ Took(p, StarsCacheOnCacheRead(inv'[p].maybeCached))
       /\ Took(p, StarsOnCacheRead(inv'[p].maybeCached))
  /\ (inv[p].pc = "fetch" /\ inv'[p].pc # "fetch") =>
       /\ inv'[p].fetches = 1
       /\ inv'[p].request = [url |-> StarsUrl(inv[p].ref), headers |-> inv[p].headers]
       /\ Took(p, InstrumentedOnFetch(inv'[p].response))
       /\ Took(p, StarsCacheOnFetch(inv'[p].response))
       /\ Took(p, StarsOnFetch(inv'[p].response))
  /\ (inv[p].pc = "body" /\ inv'[p].pc # "body") =>
       /\ Took(p, InstrumentedOnBody(inv[p].response))
       /\ Took(p, StarsCacheOnBody(inv[p].response))
       /\ Took(p, StarsOnBody(inv[p].response))
       /\ inv'[p].value = InstrumentedOnBody(inv[p].response).value
       /\ inv'[p].value = StarsCacheOnBody(inv[p].response).value
       /\ inv'[p].value = StarsOnBody(inv[p].response).value
  /\ (inv[p].pc = "put" /\ inv'[p].pc # "put") =>
       /\ inv'[p].puts = 1
       /\ Took(p, InstrumentedOnPut(inv[p].value, inv'[p].put = "error"))
       /\ Took(p, StarsCacheOnPut(inv[p].value, inv'[p].put = "error"))
       /\ Took(p, StarsOnPut(inv[p].value, inv'[p].put = "error"))
       /\ inv'[p].put = "ok" =>
            /\ DOMAIN cache' = DOMAIN cache \cup {StarsCacheKey(inv[p].ref)}
            /\ cache'[StarsCacheKey(inv[p].ref)].value = Str(NumberToString(inv[p].value))
            /\ cache'[StarsCacheKey(inv[p].ref)].expirationTtl =
                 (IF deployment = "current" THEN ExpirationTtl
                  ELSE ExpirationTtlStarsCache)
       /\ inv'[p].put = "error" => cache' = cache
  /\ (inv[p].pc # "put" /\ inv'[p] # inv[p]) => cache' = cache

\* C24: the instrumented variant of getRepoStars returns the same value and
\* performs the same cache gets, upstream requests and cache puts as the
\* plain variant, for every combination of cache and upstream outcomes
C24_VariantsAgree ==
  [][\A p \in DOMAIN inv : SameStepInAllVariants(p)]_vars

\* the instrumented variant has fetched 42, stored it for 3600 seconds and
\* returned it
C24_Witness ==
  /\ deployment = "instrumented"
  /\ Settled(1) /\ inv[1].read = "miss" /\ inv[1].fetches = 1
  /\ inv[1].put = "ok" /\ inv[1].result = Num(42, 0)
  /\ cache[StarsKeyOfWidgets] = [value |-> Str(<<"4", "2">>), expirationTtl |-> ExpirationTtlStarsCache]

-----------------------------------------------------------------------------
(* CopyButton (copy-button.tsx): a click starts a clipboard write; when it   *)
(* resolves the indicator is shown and a timer is set that hides it.         *)

\* the delay of setTimeout(() => setCopied(false), 2000)
CopiedMs == 2000

\* the clicks followed
MaxClicks == 3
\* the steps in which the delay of a timer passes
TicksPerDelay == 4

TickMs == CopiedMs \div TicksPerDelay

Max(a, b) == IF a > b THEN a ELSE b
Min(a, b) == IF a < b THEN a ELSE b

\* the mounted button: useState(false); no write in flight, no timer set.
\* timers holds, per pending timer in the order set, the time left to it;
\* sinceCopy is the time since the last write that resolved
ButtonMounted ==
  [pc |-> "mounted", copied |-> FALSE, writing |-> 0, timers |-> <<>>,
   clicks |-> 0, copies |-> 0, sinceCopy |-> 0]

\* onClick: handleCopy runs up to `await navigator.clipboard.writeText(text)`
Click ==
  /\ button.clicks < MaxClicks
  /\ button' = [button EXCEPT !.clicks = @ + 1, !.writing = @ + 1]
  /\ UNCHANGED <<lookups, scroller, blog>>

\* the write resolves: setCopied(true), setTimeout(..., 2000)
WriteResolves ==
  /\ button.writing > 0
  /\ button' = [button EXCEPT !.writing = @ - 1, !.copied = TRUE,
                              !.timers = Append(@, CopiedMs),
                              !.copies = @ + 1, !.sinceCopy = 0]
  /\ UNCHANGED <<lookups, scroller, blog>>

\* the write rejects: the catch block logs the error
WriteRejects ==
  /\ button.writing > 0
  /\ button' = [button EXCEPT !.writing = @ - 1]
  /\ UNCHANGED <<lookups, scroller, blog>>

\* a timer whose delay has passed runs its callback: setCopied(false)
TimerFires ==
  /\ button.timers # <<>>
  /\ Head(button.timers) = 0
  /\ button' = [button EXCEPT !.timers = Tail(@), !.copied = FALSE]
  /\ UNCHANGED <<lookups, scroller, blog>>

\* time passes while a timer is pending; a timer may run late, never early
Tick ==
  /\ button.timers # <<>>
  /\ \E i \in 1..Len(button.timers) : button.timers[i] > 0
  /\ button' = [button EXCEPT
                  !.timers = [i \in 1..Len(@) |-> Max(0, @[i] - TickMs)],
                  !.sinceCopy = Min(CopiedMs, @ + TickMs)]
  /\ UNCHANGED <<lookups, scroller, blog>>

InitCopy ==
  /\ page = NoPage /\ deployment = "current" /\ cache = EmptyCache
  /\ token = SomeToken /\ inv = [p \in Single |-> Idle]
  /\ button = ButtonMounted
  /\ scroller = Absent /\ blog = Absent

NextCopy ==
  \/ Click
  \/ WriteResolves
  \/ WriteRejects
  \/ TimerFires
  \/ Tick

\* clipboard writes settle, time passes and due timers run
SpecCopy ==
  /\ InitCopy /\ [][NextCopy]_vars
  /\ WF_vars(WriteResolves \/ WriteRejects)
  /\ WF_vars(TimerFires)
  /\ WF_vars(Tick)

\* a step in which a clipboard write fails
WriteFails ==
  button'.writing < button.writing /\ button'.copies = button.copies

\* C25: CopyButton shows the copied indicator only after a clipboard write
\* has succeeded (a failed write does not show it), the indicator always
\* eventually returns to not-copied, and after each successful copy,
\* including one made while the indicator is already shown, the indicator
\* stays shown until 2000 ms after that copy
C25_CopiedIndicator ==
  /\ [](button.copied => button.copies > 0)
  /\ [][WriteFails => button'.copied = button.copied]_vars
  /\ (button.copied ~> ~button.copied)
  /\ []((button.copies > 0 /\ button.sinceCopy < CopiedMs) => button.copied)

-----------------------------------------------------------------------------
(* ScrollToTop (scroll-to-top.tsx): a layout effect that observes the       *)
(* children of main and scrolls to the top on a mutation batch unless a     *)
(* popstate event came first. Mutation records are delivered to the         *)
(* observer's callback at the end of the script that made them.             *)

\* the events of the window and of the document that are followed
MaxEvents == 6

\* the component before React runs its layout effect; main is or is not in
\* the document. popstateSince records whether a popstate event has been
\* dispatched since the last delivered batch (since the mount, before the
\* first); it is not a variable of the code
ScrollerAt(hasMain) ==
  [pc |-> "rendered", main |-> hasMain, listening |-> FALSE,
   observing |-> FALSE, popStateWasCalled |-> FALSE, pending |-> FALSE,
   popstateSince |-> FALSE, events |-> 0, batches |-> 0, scrolls |-> 0]

\* faulty variant: the callback leaves the flag set
ObserverCallbackKeepsFlag(popStateWasCalled) ==
  [scroll |-> ~popStateWasCalled, popStateWasCalled |-> popStateWasCalled]

\* the MutationObserver callback: window.scrollTo(0, 0) unless the flag is
\* set, then the flag is cleared
ObserverCallback(popStateWasCalled) ==
  [scroll |-> ~popStateWasCalled, popStateWasCalled |-> FALSE]

\* the layout effect runs: the flag, the observer and the handler are
\* created; with a main element the listener is added and main is observed
Mount ==
  /\ scroller.pc = "rendered"
  /\ scroller' = [scroller EXCEPT !.pc = "mounted",
                                  !.popStateWasCalled = FALSE,
                                  !.listening = scroller.main,
                                  !.observing = scroller.main]
  /\ UNCHANGED <<lookups, button, blog>>

\* the window dispatches popstate, between two scripts; handlePopState runs
\* if it is registered
Popstate ==
  /\ scroller.pc # "rendered"
  /\ scroller.events < MaxEvents
  /\ ~scroller.pending
  /\ scroller' = [scroller EXCEPT
                    !.events = @ + 1,
                    !.popstateSince = (scroller.pc = "mounted"),
                    !.popStateWasCalled = IF scroller.listening THEN TRUE ELSE @]
  /\ UNCHANGED <<lookups, button, blog>>

\* a script adds or removes nodes under main; an observer that observes
\* main gets a record, delivered when the script ends
Mutate ==
  /\ scroller.pc # "rendered"
  /\ scroller.main
  /\ scroller.events < MaxEvents
  /\ scroller' = [scroller EXCEPT !.events = @ + 1,
                                  !.pending = scroller.observing]
  /\ UNCHANGED <<lookups, button, blog>>

\* the pending records are delivered: the callback runs
Deliver ==
  /\ scroller.pending
  /\ LET done == ObserverCallback(scroller.popStateWasCalled)
     IN scroller' = [scroller EXCEPT
                       !.pending = FALSE,
                       !.batches = @ + 1,
                       !.scrolls = IF done.scroll THEN @ + 1 ELSE @,
                       !.popStateWasCalled = done.popStateWasCalled,
                       !.popstateSince = FALSE]
  /\ UNCHANGED <<lookups, button, blog>>

\* the cleanup of the effect: removeEventListener and observer.disconnect(),
\* which drops the records not yet delivered
Unmount ==
  /\ scroller.pc = "mounted"
  /\ scroller' = [scroller EXCEPT !.pc = "cleaned", !.listening = FALSE,
                                  !.observing = FALSE, !.pending = FALSE,
                                  !.popstateSince = FALSE]
  /\ UNCHANGED <<lookups, button, blog>>

InitScroll ==
  /\ page = NoPage /\ deployment = "current" /\ cache = EmptyCache
  /\ token = SomeToken /\ inv = [p \in Single |-> Idle]
  /\ button = Absent /\ blog = Absent
  /\ scroller \in {ScrollerAt(hasMain) : hasMain \in BOOLEAN}

NextScroll ==
  \/ Mount
  \/ Popstate
  \/ Mutate
  \/ Deliver
  \/ Unmount

SpecScroll == InitScroll /\ [][NextScroll]_vars

\* this step delivers a mutation batch to the callback
BatchDelivered == scroller'.batches = scroller.batches + 1

\* this step scrolls the window to the top
Scrolled == scroller'.scrolls = scroller.scrolls + 1

\* C26: while mounted, a mutation batch under main scrolls the window to the
\* top if and only if no popstate event occurred since the previous batch;
\* the popstate flag is cleared after every batch; after unmount neither
\* mutations nor popstate events cause a scroll
C26_ScrollUnlessPopstate ==
  /\ [][BatchDelivered =>
          /\ scroller.pc = "mounted"
          /\ Scrolled <=> ~scroller.popstateSince
          /\ ~scroller'.popStateWasCalled]_vars
  /\ [][scroller'.scrolls # scroller.scrolls => (BatchDelivered /\ Scrolled)]_vars
  /\ [][scroller.pc = "cleaned" =>
          /\ scroller'.scrolls = scroller.scrolls
          /\ scroller'.batches = scroller.batches
          /\ ~scroller'.pending
          /\ scroller'.popStateWasCalled = scroller.popStateWasCalled]_vars

\* after the unmount: three batches were delivered, one of them after a
\* popstate event and without a scroll, and a mutation and a popstate event
\* since the unmount have caused nothing
C26_Witness ==
  /\ scroller.pc = "cleaned"
  /\ scroller.batches = 3 /\ scroller.scrolls = 2
  /\ scroller.events = MaxEvents

-----------------------------------------------------------------------------
(* extractHeadingsFromHtml (extract-headings.ts) and TableOfContents         *)
(* (table-of-contents.tsx). Strings are sequences of characters.            *)

Quote == "\""
LineTerminators == {"\n", "\r"}
IsWhiteSpace(c) == c \in {" ", "\t", "\n", "\r"}

Least(S) == CHOOSE x \in S : \A y \in S : x <= y
Greatest(S) == CHOOSE x \in S : \A y \in S : x >= y

\* the i flag of headingRegex: its letters h, i, d match either case
FoldCase(c) ==
  CASE c = "H" -> "h" [] c = "I" -> "i" [] c = "D" -> "d" [] OTHER -> c

\* the literal lit of the pattern matches s at position i
LiteralAt(s, i, lit) ==
  /\ i >= 1 /\ i + Len(lit) - 1 <= Len(s)
  /\ \A k \in 1..Len(lit) : FoldCase(s[i + k - 1]) = lit[k]

\* the first position of s from i on that holds c; Len(s) + 1 when none
FirstCharFrom(s, i, c) ==
  LET hits == {j \in i..Len(s) : s[j] = c}
  IN IF hits = {} THEN Len(s) + 1 ELSE Least(hits)

NoMatch == [found |-> FALSE]

\* id="([^"]+)"[^>]*>(.*?)<\/h\1> tried at position k for the level digit d:
\* [^"]+ and [^>]* run to the next quote and the next >, and may hold line
\* terminators; .*? is lazy and holds none (no s flag)
AfterAttributes(s, d, k) ==
  IF ~LiteralAt(s, k, <<"i", "d", "=", "\"">>) THEN NoMatch
  ELSE LET q == FirstCharFrom(s, k + 4, Quote)
       IN IF q > Len(s) \/ q = k + 4 THEN NoMatch
          ELSE LET g == FirstCharFrom(s, q + 1, ">")
                   closes ==
                     {e \in (g + 1)..Len(s) :
                        /\ LiteralAt(s, e, <<"<", "/", "h", d, ">">>)
                        /\ \A j \in (g + 1)..(e - 1) : s[j] \notin LineTerminators}
               IN IF g > Len(s) \/ closes = {} THEN NoMatch
                  ELSE [found |-> TRUE, last |-> Least(closes) + 4,
                        level |-> <<d>>,
                        id |-> SubSeq(s, k + 4, q - 1),
                        inner |-> SubSeq(s, g + 1, Least(closes) - 1)]

\* /<h([234])[^>]*id="([^"]+)"[^>]*>(.*?)<\/h\1>/gi tried at position i: the
\* first [^>]* is greedy, so the last id=" of the tag that lets the rest
\* match is taken
MatchAt(s, i) ==
  IF ~(LiteralAt(s, i, <<"<", "h">>) /\ i + 2 <= Len(s) /\ s[i + 2] \in {"2", "3", "4"})
  THEN NoMatch
  ELSE LET gt == FirstCharFrom(s, i + 3, ">")
           ks == {k \in (i + 3)..gt : AfterAttributes(s, s[i + 2], k).found}
       IN IF ks = {} THEN NoMatch
          ELSE AfterAttributes(s, s[i + 2], Greatest(ks))

\* headingRegex.exec(html) with the g flag: the first match that starts at
\* or after lastIndex
Exec(s, lastIndex) ==
  LET starts == {i \in (lastIndex + 1)..Len(s) : MatchAt(s, i).found}
  IN IF starts = {} THEN NoMatch ELSE MatchAt(s, Least(starts))

RECURSIVE StripTags(_)
\* .replace(/<[^>]+>/g, "")
StripTags(s) ==
  IF s = <<>> THEN <<>>
  ELSE LET g == FirstCharFrom(s, 2, ">")
       IN IF Head(s) = "<" /\ g >= 3 /\ g <= Len(s)
          THEN StripTags(SubSeq(s, g + 1, Len(s)))
          ELSE <<Head(s)>> \o StripTags(Tail(s))

RECURSIVE TrimStart(_)
TrimStart(s) ==
  IF s # <<>> /\ IsWhiteSpace(Head(s)) THEN TrimStart(Tail(s)) ELSE s

RECURSIVE TrimEnd(_)
TrimEnd(s) ==
  IF s # <<>> /\ IsWhiteSpace(s[Len(s)]) THEN TrimEnd(SubSeq(s, 1, Len(s) - 1))
  ELSE s

\* String.prototype.trim
Trim(s) == TrimEnd(TrimStart(s))

RECURSIVE ReplaceAll(_, _, _)
\* .replace(/pattern/g, replacement) for a literal pattern
ReplaceAll(s, pattern, replacement) ==
  IF s = <<>> THEN <<>>
  ELSE IF Len(s) >= Len(pattern) /\ SubSeq(s, 1, Len(pattern)) = pattern
       THEN replacement \o ReplaceAll(SubSeq(s, Len(pattern) + 1, Len(s)), pattern, replacement)
       ELSE <<Head(s)>> \o ReplaceAll(Tail(s), pattern, replacement)

\* decodeHtmlEntities: the replacements in the order of the code. The texts
\* followed hold no numeric character reference (&#NN; or &#xNN;), on which
\* the last two replacements act, so those two leave the text as it is
DecodeHtmlEntities(text) ==
  LET amp == ReplaceAll(text, <<"&", "a", "m", "p", ";">>, <<"&">>)
      lt == ReplaceAll(amp, <<"&", "l", "t", ";">>, <<"<">>)
      gt == ReplaceAll(lt, <<"&", "g", "t", ";">>, <<">">>)
      quot == ReplaceAll(gt, <<"&", "q", "u", "o", "t", ";">>, <<Quote>>)
      apos == ReplaceAll(quot, <<"&", "#", "x", "2", "7", ";">>, <<"'">>)
  IN ReplaceAll(apos, <<"&", "#", "x", "2", "6", ";">>, <<"&">>)

RECURSIVE ExecLoop(_, _)
\* the while loop over headingRegex.exec(html): one heading per match
ExecLoop(html, lastIndex) ==
  LET match == Exec(html, lastIndex)
  IN IF ~match.found THEN <<>>
     ELSE <<[id |-> match.id,
             text |-> DecodeHtmlEntities(Trim(StripTags(match.inner))),
             level |-> ParseInt(match.level)]>>
          \o ExecLoop(html, match.last)

\* extractHeadingsFromHtml(html)
ExtractHeadingsFromHtml(html) == ExecLoop(html, 0)

\* TableOfContents({ headings }): null for no heading, else one list item
\* per heading, keyed by its id and linking to #id
TableOfContents(headings) ==
  IF Len(headings) = 0 THEN Null
  ELSE [t |-> "nav",
        items |-> [i \in 1..Len(headings) |->
                     [key |-> headings[i].id,
                      href |-> <<"#">> \o headings[i].id,
                      text |-> headings[i].text,
                      level |-> headings[i].level]]]

\* the <aside> of BlogPost: headings.length > 0 && <TableOfContents .../>
Aside(headings) ==
  IF Len(headings) > 0 THEN TableOfContents(headings) ELSE Undefined

\* extractHeadingsFromHtml(post.html).filter((h) => h.level === 2)
Level2Headings(html) ==
  SelectSeq(ExtractHeadingsFromHtml(html.s), LAMBDA h : h.level = Num(2, 0))

-----------------------------------------------------------------------------
(* BlogPost (blog-page.tsx): the post of the requested slug is looked up in *)
(* allPosts and one of three views is returned.                             *)

\* the posts followed per collection
MaxPosts == 2

\* p._meta.path.replace(/\.md$/, ""): one trailing ".md" is removed
WithoutMdSuffix(path) ==
  LET n == Len(path)
  IN IF n >= 3 /\ SubSeq(path, n - 2, n) = <<".", "m", "d">>
     THEN SubSeq(path, 1, n - 3) ELSE path

\* Array.prototype.find: the first element that satisfies the test, else
\* undefined
FindPost(allPosts, slug) ==
  LET hits == {i \in 1..Len(allPosts) : WithoutMdSuffix(allPosts[i].path) = slug}
  IN IF hits = {} THEN Undefined
     ELSE allPosts[CHOOSE i \in hits : \A j \in hits : i <= j]

\* faulty variant: the protected flag is not looked at
BlogPostUnguarded(allPosts, slug) ==
  LET post == FindPost(allPosts, slug)
  IN IF ~Truthy(post)
     THEN [view |-> "not-found", html |-> Undefined, toc |-> Undefined]
     ELSE [view |-> "content", html |-> post.html,
           toc |-> Aside(Level2Headings(post.html))]

\* BlogPost({ params }): `Post not found`, `Protected Post`, or the article
\* with dangerouslySetInnerHTML={{ __html: post.html }} and, beside it, the
\* table of contents of its level-2 headings
BlogPost(allPosts, slug) ==
  LET post == FindPost(allPosts, slug)
  IN IF ~Truthy(post)
     THEN [view |-> "not-found", html |-> Undefined, toc |-> Undefined]
     ELSE IF Truthy(post.protected)
     THEN [view |-> "protected", html |-> Undefined, toc |-> Undefined]
     ELSE [view |-> "content", html |-> post.html,
           toc |-> Aside(Level2Headings(post.html))]

\* the paths of the posts and the slugs requested: "a" and "a.md" give the
\* same slug
PostPaths == {<<"a">>, <<"b">>, <<"a", ".", "m", "d">>}
Slugs == {<<"a">>, <<"b">>, <<"a", ".", "m", "d">>, <<"c">>}

\* a post of the collection; its html names it
PostAt(path, protected) ==
  [t |-> "obj", path |-> path, protected |-> protected,
   html |-> Str(<<"<", "p", ">">> \o path \o <<"<", "/", "p", ">">>)]

Posts ==
  {PostAt(path, protected) :
     path \in PostPaths, protected \in {Undefined, Bool(FALSE), Bool(TRUE)}}

\* the collections: up to MaxPosts posts of different files
PostLists ==
  UNION {{l \in [1..n -> Posts] :
            \A i, j \in 1..n : i # j => l[i].path # l[j].path} : n \in 0..MaxPosts}

\* a request for /blog/:slug
BlogRequest(allPosts, slug) ==
  [pc |-> "requested", allPosts |-> allPosts, slug |-> slug,
   view |-> "none", html |-> Undefined, toc |-> Undefined]

\* BlogPost is called for the request and returns its view
BlogPostRenders ==
  /\ blog.pc = "requested"
  /\ LET out == BlogPost(blog.allPosts, blog.slug)
      IN blog' = [blog EXCEPT !.pc = "rendered", !.view = out.view,
                             !.html = out.html, !.toc = out.toc]
  /\ UNCHANGED <<lookups, button, scroller>>

InitBlog ==
  /\ page = NoPage /\ deployment = "current" /\ cache = EmptyCache
  /\ token = SomeToken /\ inv = [p \in Single |-> Idle]
  /\ button = Absent /\ scroller = Absent
  /\ blog \in {BlogRequest(l, slug) : l \in PostLists, slug \in Slugs}

NextBlog == BlogPostRenders

SpecBlog == InitBlog /\ [][NextBlog]_vars

\* the posts whose path, with the .md suffix removed, is the requested slug
PostsOfSlug ==
  {i \in 1..Len(blog.allPosts) : WithoutMdSuffix(blog.allPosts[i].path) = blog.slug}

\* C27: BlogPost never renders the HTML content of a post marked protected,
\* renders the not-found view exactly when no post's path (with the .md
\* suffix removed) equals the requested slug, and reaches the content view
\* only for an existing, unprotected post
C27_ProtectedNeverRendered ==
  blog.pc = "rendered" =>
    /\ blog.view \in {"not-found", "protected", "content"}
    /\ blog.view = "not-found" <=> PostsOfSlug = {}
    /\ blog.view = "content" =>
         \E i \in PostsOfSlug :
           /\ blog.allPosts[i].protected # Bool(TRUE)
           /\ blog.html = blog.allPosts[i].html
    /\ blog.view # "content" => blog.html = Undefined
    /\ \A i \in 1..Len(blog.allPosts) :
         blog.allPosts[i].protected = Bool(TRUE) => blog.html # blog.allPosts[i].html

\* two posts share the slug "a"; the first one found is protected, the
\* other is not, and the protected view is rendered
C27_Witness ==
  /\ blog.pc = "rendered" /\ blog.slug = <<"a">>
  /\ blog.allPosts = <<PostAt(<<"a", ".", "m", "d">>, Bool(TRUE)), PostAt(<<"a">>, Bool(FALSE))>>
  /\ blog.view = "protected" /\ blog.html = Undefined

-----------------------------------------------------------------------------
(* The table of contents of a post, against the headings its html holds     *)

\* the elements followed per document
MaxElements == 2

\* a top-level element of the compiled html: its tag, its id attribute
\* (undefined when it has none) and its serialisation
Element(tag, id, source) == [tag |-> tag, id |-> id, source |-> source]

\* what compileMarkdown with rehypeRaw emits: headings with the id of
\* rehype-slug and the anchor of rehype-autolink-headings, headings without
\* an id (no rehype-slug in the earlier configuration), a heading whose
\* text runs over two lines (a setext heading or raw html), and raw html
\* headings with other attributes
Elements ==
  {Element("h2", Str(<<"a">>), <<"<", "h", "2", " ", "i", "d", "=", "\"", "a", "\"", ">", "<", "a", " ", "h", "r", "e", "f", "=", "\"", "#", "a", "\"", ">", "A", " ", "&", "a", "m", "p", ";", " ", "B", "<", "/", "a", ">", "<", "/", "h", "2", ">">>),
   Element("h3", Str(<<"b">>), <<"<", "h", "3", " ", "i", "d", "=", "\"", "b", "\"", ">", "B", "<", "/", "h", "3", ">">>),
   Element("p", Undefined, <<"<", "p", ">", "x", "<", "/", "p", ">">>),
   Element("h2", Undefined, <<"<", "h", "2", ">", "C", "<", "/", "h", "2", ">">>),
   Element("h2", Str(<<"d">>), <<"<", "h", "2", " ", "i", "d", "=", "\"", "d", "\"", ">", "D", "\n", "E", "<", "/", "h", "2", ">">>),
   Element("h1", Str(<<"t">>), <<"<", "h", "1", " ", "i", "d", "=", "\"", "t", "\"", ">", "T", "<", "/", "h", "1", ">">>),
   Element("h2", Undefined, <<"<", "h", "2", " ", "d", "a", "t", "a", "-", "i", "d", "=", "\"", "x", "\"", ">", "F", "<", "/", "h", "2", ">">>),
   Element("h2", Str(<<"e">>), <<"<", "h", "2", " ", "c", "l", "a", "s", "s", "=", "\"", "k", "\"", " ", "i", "d", "=", "\"", "e", "\"", ">", " ", "E", " ", "<", "/", "h", "2", ">">>)}

Documents == UNION {[1..n -> Elements] : n \in 0..MaxElements}

RECURSIVE Serialise(_)
\* the html of a document: its elements one after the other
Serialise(doc) ==
  IF doc = <<>> THEN <<>> ELSE Head(doc).source \o Serialise(Tail(doc))

\* a request for the only post of the collection, compiled from doc
TocRequest(doc) ==
  [pc |-> "requested",
   allPosts |-> <<[t |-> "obj", path |-> <<"a">>, protected |-> Undefined,
                   html |-> Str(Serialise(doc))]>>,
   slug |-> <<"a">>, view |-> "none", html |-> Undefined, toc |-> Undefined,
   doc |-> doc]

InitToc ==
  /\ page = NoPage /\ deployment = "current" /\ cache = EmptyCache
  /\ token = SomeToken /\ inv = [p \in Single |-> Idle]
  /\ button = Absent /\ scroller = Absent
  /\ blog \in {TocRequest(doc) : doc \in Documents}

NextToc == BlogPostRenders

SpecToc == InitToc /\ [][NextToc]_vars

\* the level-2 headings of the document that carry an id, in document order
Level2WithId == SelectSeq(blog.doc, LAMBDA e : e.tag = "h2" /\ e.id.t = "str")

\* the ids the rendered table of contents lists, in its order
ListedIds == [i \in 1..Len(blog.toc.items) |-> blog.toc.items[i].key]

\* C28: the table of contents of a blog post lists exactly the level-2
\* headings that carry an id, in document order, and is omitted when there
\* is none
C28_TocListsLevel2WithId ==
  blog.pc = "rendered" =>
    IF Level2WithId = <<>> THEN blog.toc = Undefined
    ELSE /\ blog.toc # Undefined
         /\ ListedIds = [i \in 1..Len(Level2WithId) |-> Level2WithId[i].id.s]

\* the elements whose heading text stays on one line and whose tag holds
\* no other attribute ending in id="
PlainElements ==
  {e \in Elements :
     /\ \A i \in 1..Len(e.source) : e.source[i] \notin LineTerminators
     /\ \A i \in 2..Len(e.source) :
          LiteralAt(e.source, i, <<"i", "d", "=", "\"">>) => e.source[i - 1] = " "}

\* for documents of such elements the table of contents lists the level-2
\* headings with an id, in document order, with their text
TocOfPlainElements ==
  (blog.pc = "rendered" /\ \A i \in 1..Len(blog.doc) : blog.doc[i] \in PlainElements)
    => IF Level2WithId = <<>> THEN blog.toc = Undefined
       ELSE /\ blog.toc # Undefined
            /\ ListedIds = [i \in 1..Len(Level2WithId) |-> Level2WithId[i].id.s]
            /\ \A i \in 1..Len(ListedIds) :
                 /\ ListedIds[i] = <<"a">> => blog.toc.items[i].text = <<"A", " ", "&", " ", "B">>
                 /\ ListedIds[i] = <<"e">> => blog.toc.items[i].text = <<"E">>

-----------------------------------------------------------------------------
(* posts.transform (content-collections.ts): a document of the collection   *)
(* is compiled to html; a failed compilation is caught.                     *)

\* an optional field the front matter leaves out
Missing == [t |-> "missing"]

\* a document as the schema lets it through: the required fields, the
\* optional ones that are given, the markdown body in content, and _meta
DocumentOf(title, content, protected, headerImage) ==
  LET given == [title |-> title, summary |-> Str(<<"s">>),
                date |-> Str(<<"2", "0", "2", "5", "-", "0", "1", "-", "0", "1">>), author |-> Str(<<"o">>),
                protected |-> protected, headerImage |-> headerImage,
                content |-> content]
      present == {f \in DOMAIN given : given[f] # Missing} \cup {"_meta"}
  IN [f \in present |->
        IF f = "_meta" THEN [t |-> "obj", path |-> Str(<<"a">>)] ELSE given[f]]

SourceDocuments ==
  {DocumentOf(title, content, protected, headerImage) :
     title \in {Str(<<"T">>), Str(<<>>)},
     content \in {Str(<<>>), Str(<<"x">>), Str(<<"<", "b", ">">>)},
     protected \in {Missing, Bool(FALSE), Bool(TRUE)},
     headerImage \in {Missing, Str(<<"i">>)}}

\* what compileMarkdown resolves with
CompiledHtmls == {Str(<<"<", "p", ">", "x", "<", "/", "p", ">">>), Str(<<>>)}

\* { ...document, html }: the own fields of document, then html
SpreadWithHtml(document, html) ==
  [f \in DOMAIN document \cup {"html"} |->
     IF f = "html" THEN html ELSE document[f]]

\* `<p>${document.content}</p>`
FallbackHtml(document) ==
  Str(<<"<", "p", ">">> \o document["content"].s \o <<"<", "/", "p", ">">>)

Returns(value) == [kind |-> "return", value |-> value]
Throws == [kind |-> "throw"]

\* faulty variant: the catch block throws the error again
CatchRethrows(document) == Throws

\* the catch block: console.error(...), then the document with the fallback
Catch(document) == Returns(SpreadWithHtml(document, FallbackHtml(document)))

\* the async function has run to its end with the completion given
TransformSettled(completion, compileFailed) ==
  [blog EXCEPT !.pc = IF completion.kind = "return" THEN "fulfilled" ELSE "rejected",
               !.result = IF completion.kind = "return" THEN completion.value ELSE Undefined,
               !.compileFailed = compileFailed]

\* transform(document, context) is called: compileMarkdown is called inside
\* the try block and either returns a promise, which is awaited, or throws
TransformCalled ==
  /\ blog.pc = "collected"
  /\ \/ blog' = [blog EXCEPT !.pc = "await:compileMarkdown"]
     \/ blog' = TransformSettled(Catch(blog.document), TRUE)
  /\ UNCHANGED <<lookups, button, scroller>>

\* the promise of compileMarkdown is fulfilled with the html
CompileResolves ==
  /\ blog.pc = "await:compileMarkdown"
  /\ \E html \in CompiledHtmls :
       blog' = TransformSettled(Returns(SpreadWithHtml(blog.document, html)), FALSE)
  /\ UNCHANGED <<lookups, button, scroller>>

\* the promise of compileMarkdown is rejected: the catch block runs
CompileRejects ==
  /\ blog.pc = "await:compileMarkdown"
  /\ blog' = TransformSettled(Catch(blog.document), TRUE)
  /\ UNCHANGED <<lookups, button, scroller>>

InitTransform ==
  /\ page = NoPage /\ deployment = "current" /\ cache = EmptyCache
  /\ token = SomeToken /\ inv = [p \in Single |-> Idle]
  /\ button = Absent /\ scroller = Absent
  /\ blog \in {[pc |-> "collected", document |-> d, result |-> Undefined,
                compileFailed |-> FALSE] : d \in SourceDocuments}

NextTransform == TransformCalled \/ CompileResolves \/ CompileRejects

SpecTransform == InitTransform /\ [][NextTransform]_vars

\* C29: the transform never fails on a markdown compilation error: it
\* returns the document with every original field unchanged and html set to
\* the fallback <p>{content}</p>, so every post has an html field
C29_TransformNeverFails ==
  /\ blog.pc # "rejected"
  /\ blog.pc = "fulfilled" =>
       /\ DOMAIN blog.result = DOMAIN blog.document \cup {"html"}
       /\ \A f \in DOMAIN blog.document : blog.result[f] = blog.document[f]
       /\ blog.result["html"].t = "str"
       /\ blog.compileFailed =>
            blog.result["html"].s
              = <<"<", "p", ">">> \o blog.document["content"].s \o <<"<", "/", "p", ">">>

\* the compilation of a protected post with body x has failed and the post
\* is returned with the fallback html
C29_Witness ==
  /\ blog.pc = "fulfilled" /\ blog.compileFailed
  /\ blog.document = DocumentOf(Str(<<"T">>), Str(<<"x">>), Bool(TRUE), Missing)
  /\ blog.result["html"] = Str(<<"<", "p", ">", "x", "<", "/", "p", ">">>)
  /\ blog.result["protected"] = Bool(TRUE)

====
